---------------------------- MODULE Spec2Model ----------------------------
(***************************************************************************)
(* A model of the bitcoin-lib-grpc service: hierarchical key derivation,   *)
(* transaction construction and signing, and the gRPC controller in front  *)
(* of them.                                                                *)
(*                                                                         *)
(* The service keeps no state of its own.  The state of the model is the   *)
(* call in progress as its caller sees it: the operation, its arguments,   *)
(* what it returned, and the one object a call works on in place, the      *)
(* caller's *wire.MsgTx; and, for the program as a whole, the memory of    *)
(* the packages it links and the calls that its goroutines serve.          *)
(*                                                                         *)
(* Cryptography is symbolic.  A scalar or curve point is a term built from *)
(* atoms by the BIP32 child construction, an HMAC or a hash is the term of *)
(* its inputs, and two terms are equal only when they were built the same  *)
(* way.  What the code does around the primitives (which bytes it feeds    *)
(* them, in which order, from which variable) is modelled as written.      *)
(***************************************************************************)
EXTENDS Integers, Sequences, FiniteSets, TLC

VARIABLES
    op,      \* the operation that ran last ("init" before the first call)
    req,     \* its arguments
    resp,    \* what it returned: the value and the error
    msgTx,   \* the caller's *wire.MsgTx, which the signing calls receive by pointer
    seen,    \* an earlier call (operation, arguments, result) kept for comparison
    pkg,     \* package memory: the chain parameter tables, chaincfg's registry, wire's free list
    threads  \* the calls in progress in a running server, one per goroutine

vars == <<op, req, resp, msgTx, seen, pkg, threads>>

\* Go's nil / zero value of a pointer, slice or string.
Nil == [nil |-> TRUE]

\* The error value of a call that succeeded.
NoErr == "nil"

-----------------------------------------------------------------------------
(* Bounds of the model *)

\* Longest derivation path a call is given.
MaxPathLen == 2

\* Most inputs of a transaction, and most utxos or signature entries passed
\* with one.
MaxInputs == 2

\* Most calls in progress at a time in a running server.
MaxThreads == 2

-----------------------------------------------------------------------------
(* hdkeychain: extended keys *)

\* A uint32 child index, held as its top bit and its low 31 bits: the value
\* is 2^31 * (IF h THEN 1 ELSE 0) + n.
U32(h, n) == [h |-> h, n |-> n]

\* hdkeychain.HardenedKeyStart, 2^31: the first hardened child index.
HardenedKeyStart == U32(TRUE, 0)

\* i >= HardenedKeyStart.
IsHardened(i) == i.h

\* The largest depth an extended key can have (math.MaxUint8 in hdkeychain).
maxUint8 == 255

\* A root scalar or chain code that no derivation of the model produced.
Atom(n) == [atom |-> n]

\* Whether the 32-byte big-endian form of a private scalar starts with a zero
\* byte, so that big.Int.Bytes() gives fewer than 32 bytes.  One scalar in
\* 256 does; which ones is decided by the value alone.  The model takes the
\* children derived at an odd index for them.
HasLeadingZeroByte(key) ==
    /\ "il" \in DOMAIN key
    /\ key.il.idx.n % 2 = 1

\* The curve point of a private scalar.  The point of a child scalar,
\* parse256(IL) + parent scalar, is point(IL) + parent point: the key that
\* public derivation gives.
RECURSIVE PointOf(_)
PointOf(scalar) ==
    IF "il" \in DOMAIN scalar
    THEN [il |-> scalar.il, par |-> PointOf(scalar.par)]
    ELSE [pub |-> scalar]

\* ExtendedKey.pubKeyBytes(): the public key of an extended key, which is the
\* key itself for a public extended key.
pubKeyBytes(k) == IF k.isPrivate THEN PointOf(k.key) ELSE k.key

\* A derivation that feeds the parent's fingerprint field into the HMAC of a
\* normal child.
ChildDataWithFingerprint(k, i) ==
    IF IsHardened(i)
    THEN [form |-> IF k.short THEN "ser256-unpadded" ELSE "ser256", of |-> k.key]
    ELSE [form |-> "serP", of |-> pubKeyBytes(k), fp |-> k.parentFP]

\* The bytes that enter the HMAC of a child derivation in ExtendedKey.Child:
\* serP(parent public key) for a normal child; for a hardened child
\* 0x00 || parent key, copied to data[1:] whatever its length, so that a key
\* slice shorter than 32 bytes ends up left-aligned instead of zero-padded.
ChildData(k, i) ==
    IF IsHardened(i)
    THEN [form |-> IF k.short THEN "ser256-unpadded" ELSE "ser256", of |-> k.key]
    ELSE [form |-> "serP", of |-> pubKeyBytes(k)]

\* The same bytes in ExtendedKey.Derive, which pads the parent key to 32 bytes.
DeriveData(k, i) ==
    IF IsHardened(i)
    THEN [form |-> "ser256", of |-> k.key]
    ELSE [form |-> "serP", of |-> pubKeyBytes(k)]

\* HMAC-SHA512 keyed with the parent chain code over data || ser32(i).
Hmac(cc, data, i) == [cc |-> cc, data |-> data, idx |-> i]

\* btcutil.Hash160(pubKeyBytes)[:4]: the fingerprint of a public key.
Fingerprint(pubKey) == [fp |-> pubKey]

\* The child of k at index i given the HMAC input, shared by Child and Derive:
\* the left half of the HMAC is added to the parent key (scalar addition for a
\* private parent, point addition for a public one), the right half is the
\* child's chain code.  A private child's key is big.Int.Bytes(), which drops
\* leading zero bytes; a public child's key is the 33-byte compressed point.
\* The depth is a uint8.
ChildFrom(k, i, data) ==
    LET h        == Hmac(k.chainCode, data, i)
        childKey == [il |-> h, par |-> k.key]
    IN  [version   |-> k.version,
         depth     |-> (k.depth + 1) % 256,
         parentFP  |-> Fingerprint(pubKeyBytes(k)),
         childNum  |-> i,
         chainCode |-> [ir |-> h],
         key       |-> childKey,
         isPrivate |-> k.isPrivate,
         short     |-> k.isPrivate /\ HasLeadingZeroByte(childKey)]

\* A derivation that checks the kind of the key only, and not the depth.
ChildErrNoDepthCheck(k, i) ==
    IF ~k.isPrivate /\ IsHardened(i) THEN "ErrDeriveHardFromPublic" ELSE NoErr

\* The same two checks in the other order.
ChildErrHardenedFirst(k, i) ==
    IF ~k.isPrivate /\ IsHardened(i) THEN "ErrDeriveHardFromPublic"
    ELSE IF k.depth = maxUint8 THEN "ErrDeriveBeyondMaxDepth"
    ELSE NoErr

\* The error of a child derivation, checked in the library's order: the depth
\* first, then a hardened child of a public key.
ChildErr(k, i) ==
    IF k.depth = maxUint8 THEN "ErrDeriveBeyondMaxDepth"
    ELSE IF ~k.isPrivate /\ IsHardened(i) THEN "ErrDeriveHardFromPublic"
    ELSE NoErr

\* ExtendedKey.Child(i): <<child, error>>.
Child(k, i) ==
    IF ChildErr(k, i) # NoErr
    THEN <<Nil, ChildErr(k, i)>>
    ELSE <<ChildFrom(k, i, ChildData(k, i)), NoErr>>

\* ExtendedKey.Derive(i): <<child, error>>.
Derive(k, i) ==
    IF ChildErr(k, i) # NoErr
    THEN <<Nil, ChildErr(k, i)>>
    ELSE <<ChildFrom(k, i, DeriveData(k, i)), NoErr>>

\* ExtendedKey.String(): the Base58Check form of version, depth, parent
\* fingerprint, child number, chain code and key.  A private key is written
\* as 0x00 and the key padded to 32 bytes, so the length of the key slice in
\* memory does not show in the string.
String(k) ==
    [version   |-> k.version,
     depth     |-> k.depth,
     parentFP  |-> k.parentFP,
     childNum  |-> k.childNum,
     chainCode |-> k.chainCode,
     keyData   |-> [prefix |-> IF k.isPrivate THEN "00" ELSE "point", k |-> k.key]]

\* A string that is no serialized extended key ("deadbeef").
BadKeyString == [invalid |-> "ErrInvalidKeyLen"]

\* hdkeychain.NewKeyFromString: <<key, error>>.  The key is private when the
\* key data starts with 0x00, and then holds the 32 bytes that follow.
NewKeyFromString(s) ==
    IF "invalid" \in DOMAIN s
    THEN <<Nil, s.invalid>>
    ELSE <<[version   |-> s.version,
            depth     |-> s.depth,
            parentFP  |-> s.parentFP,
            childNum  |-> s.childNum,
            chainCode |-> s.chainCode,
            key       |-> s.keyData.k,
            isPrivate |-> s.keyData.prefix = "00",
            short     |-> FALSE], NoErr>>

\* ExtendedKey.ECPubKey(): the public key of an extended key, private or
\* public.
ECPubKey(k) == pubKeyBytes(k)

\* PublicKey.SerializeCompressed(): the 33-byte form of a curve point.
SerializeCompressed(pubKey) == [compressed |-> pubKey]

-----------------------------------------------------------------------------
(* Service.DeriveExtendedKey *)

\* PublicKeyMaterial{}: the zero value returned beside an error.
EmptyMaterial == [ExtendedKey |-> Nil, PublicKey |-> Nil, ChainCode |-> Nil]

\* The loop over the derivation path: <<key, error, number of indices used>>,
\* stopping at the first index whose derivation fails.
RECURSIVE ChildPath(_, _, _)
ChildPath(k, path, n) ==
    IF n > Len(path) THEN <<k, NoErr, n - 1>>
    ELSE LET c == Child(k, path[n])
         IN  IF c[2] # NoErr THEN <<Nil, c[2], n>>
             ELSE ChildPath(c[1], path, n + 1)

\* Service.DeriveExtendedKey(extendedKey, derivation): <<material, error>>.
DeriveExtendedKey(extendedKey, derivation) ==
    LET parsed == NewKeyFromString(extendedKey)
    IN  IF parsed[2] # NoErr THEN <<EmptyMaterial, parsed[2]>>
        ELSE LET d == ChildPath(parsed[1], derivation, 1)
             IN  IF d[2] # NoErr THEN <<EmptyMaterial, d[2]>>
                 ELSE <<[ExtendedKey |-> String(d[1]),
                         PublicKey   |-> SerializeCompressed(ECPubKey(d[1])),
                         ChainCode   |-> d[1].chainCode], NoErr>>

-----------------------------------------------------------------------------
(* chaincfg: the chain parameters the transaction code reads *)

\* The version bytes of an extended key: its network family and its kind
\* (0488ade4 xprv, 0488b21e xpub, 04358394 tprv, 043587cf tpub).
Version(net, kind) == [net |-> net, kind |-> kind]

\* chaincfg.MainNetParams, the fields this code reads.
BitcoinMainNetParams ==
    [Name             |-> "mainnet",
     Net              |-> "d9b4bef9",
     PubKeyHashAddrID |-> 0,
     ScriptHashAddrID |-> 5,
     Bech32HRPSegwit  |-> "bc",
     HDPrivateKeyID   |-> Version("main", "priv"),
     HDPublicKeyID    |-> Version("main", "pub"),
     HDCoinType       |-> 0]

\* chaincfg.TestNet3Params.
BitcoinTestNet3Params ==
    [Name             |-> "testnet3",
     Net              |-> "0709110b",
     PubKeyHashAddrID |-> 111,
     ScriptHashAddrID |-> 196,
     Bech32HRPSegwit  |-> "tb",
     HDPrivateKeyID   |-> Version("test", "priv"),
     HDPublicKeyID    |-> Version("test", "pub"),
     HDCoinType       |-> 1]

\* chaincfg.RegressionNetParams.
BitcoinRegressionNetParams ==
    [Name             |-> "regtest",
     Net              |-> "dab5bffa",
     PubKeyHashAddrID |-> 111,
     ScriptHashAddrID |-> 196,
     Bech32HRPSegwit  |-> "bcrt",
     HDPrivateKeyID   |-> Version("test", "priv"),
     HDPublicKeyID    |-> Version("test", "pub"),
     HDCoinType       |-> 1]

\* LitecoinMainNetParams: a copy of chaincfg.MainNetParams with the Litecoin
\* values written over it.
LitecoinMainNetParams ==
    [BitcoinMainNetParams EXCEPT !.Net = "dbb6c0fb",
                                 !.Bech32HRPSegwit = "ltc",
                                 !.PubKeyHashAddrID = 48,
                                 !.ScriptHashAddrID = 50,
                                 !.HDPrivateKeyID = Version("main", "priv"),
                                 !.HDPublicKeyID = Version("main", "pub"),
                                 !.HDCoinType = 2]

\* BitcoinCashMainNetParams: a copy of chaincfg.MainNetParams with the
\* Bitcoin Cash values written over it.
BitcoinCashMainNetParams ==
    [BitcoinMainNetParams EXCEPT !.Net = "e8f3e1e3",
                                 !.Bech32HRPSegwit = "bitcoincash",
                                 !.PubKeyHashAddrID = 0,
                                 !.ScriptHashAddrID = 5,
                                 !.HDPrivateKeyID = Version("main", "priv"),
                                 !.HDPublicKeyID = Version("main", "pub"),
                                 !.HDCoinType = 145]

\* The human-readable parts of btcd's own networks alone.
BtcdBech32Prefixes == {"bc", "tb", "bcrt", "sb"}

\* The human-readable parts chaincfg holds once the packages are loaded:
\* those of btcd's own networks, and those of the two networks that the init
\* functions of this repository register.
RegisteredBech32Prefixes == {"bc", "tb", "bcrt", "sb", "ltc", "bitcoincash"}

\* The network enumerations of the gRPC messages; 0 is UNSPECIFIED in each,
\* and what a getter returns for a network the request does not set.
BITCOIN_NETWORK_MAINNET == 1
BITCOIN_NETWORK_TESTNET3 == 2
BITCOIN_NETWORK_REGTEST == 3
LITECOIN_NETWORK_MAINNET == 1
BITCOIN_CASH_NETWORK_MAINNET == 1

\* A *pb.ChainParams naming one network of one of the three families.
PbChainParams(bitcoin, litecoin, bitcoinCash) ==
    [BitcoinNetwork |-> bitcoin, LitecoinNetwork |-> litecoin, BitcoinCashNetwork |-> bitcoinCash]

\* ChainParams(chainParams) of the adapters: <<parameters, error, the network
\* value the error message prints>>.  The three switches run in order; the
\* error comes from the default case of the last one, over the Bitcoin Cash
\* network of the request.
ChainParams(chainParams) ==
    CASE chainParams.BitcoinNetwork = BITCOIN_NETWORK_MAINNET ->
            <<BitcoinMainNetParams, NoErr, Nil>>
      [] chainParams.BitcoinNetwork = BITCOIN_NETWORK_TESTNET3 ->
            <<BitcoinTestNet3Params, NoErr, Nil>>
      [] chainParams.BitcoinNetwork = BITCOIN_NETWORK_REGTEST ->
            <<BitcoinRegressionNetParams, NoErr, Nil>>
      [] OTHER ->
            IF chainParams.LitecoinNetwork = LITECOIN_NETWORK_MAINNET
            THEN <<LitecoinMainNetParams, NoErr, Nil>>
            ELSE IF chainParams.BitcoinCashNetwork = BITCOIN_CASH_NETWORK_MAINNET
            THEN <<BitcoinCashMainNetParams, NoErr, Nil>>
            ELSE <<Nil, "ErrUnknownNetwork",
                   [BitcoinCashNetwork |-> chainParams.BitcoinCashNetwork]>>

-----------------------------------------------------------------------------
(* btcutil and txscript: hashes, addresses and scripts *)

\* btcutil.Hash160: RIPEMD160(SHA256(b)).
Hash160(b) == [hash160 |-> b]

\* A script: its opcodes and data pushes in order.  nil and the empty script
\* serialize alike and are one value here.
Script(items) == [script |-> items]
EmptyScript == Script(<< >>)
Opcode(name) == [opc |-> name]
Push(data) == [push |-> data]

\* An address string: Base58Check (version byte, 20-byte hash) or Bech32
\* (human-readable part, witness program; written in lower case or in upper
\* case).  defect says what is wrong with the string, if anything: a
\* checksum that does not match, or letters of both cases.
Base58Address(version, hash) ==
    [enc |-> "base58check", prefix |-> [ver |-> version], hash |-> hash,
     defect |-> "none"]
Bech32Address(hrp, hash) ==
    [enc |-> "bech32", prefix |-> [hrp |-> hrp], hash |-> hash, upper |-> FALSE,
     defect |-> "none"]
ToUpper(addr) == [addr EXCEPT !.upper = TRUE]
BadChecksum(addr) == [addr EXCEPT !.defect = "checksum"]
MixedCase(addr) == [addr EXCEPT !.defect = "mixedcase"]

\* A string that decodes under no network ("" or "invalid").
BadAddress == [enc |-> "none", prefix |-> Nil, hash |-> Nil, defect |-> "none"]

\* btcutil.NewAddressPubKeyHash(pkHash, params).
NewAddressPubKeyHash(pkHash, params) ==
    [type |-> "AddressPubKeyHash", hash |-> pkHash,
     prefix |-> [ver |-> params.PubKeyHashAddrID]]

\* btcutil.NewAddressScriptHash(serializedScript, params).
NewAddressScriptHash(serializedScript, params) ==
    [type |-> "AddressScriptHash", hash |-> Hash160(serializedScript),
     prefix |-> [ver |-> params.ScriptHashAddrID]]

\* btcutil.NewAddressWitnessPubKeyHash(witnessProg, params).
NewAddressWitnessPubKeyHash(witnessProg, params) ==
    [type |-> "AddressWitnessPubKeyHash", hash |-> witnessProg,
     prefix |-> [hrp |-> params.Bech32HRPSegwit]]

\* Address.EncodeAddress(): the string of an address, Bech32 in lower case.
AddrEncodeAddress(address) ==
    IF address.type = "AddressWitnessPubKeyHash"
    THEN Bech32Address(address.prefix.hrp, address.hash)
    ELSE Base58Address(address.prefix.ver, address.hash)

\* btcutil.DecodeAddress(addr, defaultNet): <<address, error>>.  A Bech32
\* string is taken when its human-readable part is one chaincfg holds,
\* whichever network is asked for, and bech32.Decode then checks the case of
\* the letters before the checksum; a Base58Check string is taken when its
\* checksum matches and its version byte is the P2PKH or the P2SH byte of the
\* network asked for.
DecodeAddress(addr, defaultNet) ==
    IF addr.enc = "bech32" /\ addr.prefix.hrp \in RegisteredBech32Prefixes
    THEN IF addr.defect = "mixedcase"
         THEN <<Nil, "string not all lowercase or all uppercase">>
         ELSE IF addr.defect = "checksum"
         THEN <<Nil, "checksum failed. Expected v8f3t4, got v8f3t5.">>
         ELSE <<[type |-> "AddressWitnessPubKeyHash", hash |-> addr.hash,
                 prefix |-> addr.prefix], NoErr>>
    ELSE IF addr.enc # "base58check"
    THEN <<Nil, "decoded address is of unknown format">>
    ELSE IF addr.defect = "checksum"
    THEN <<Nil, "checksum mismatch">>
    ELSE LET isP2PKH == addr.prefix.ver = defaultNet.PubKeyHashAddrID
             isP2SH  == addr.prefix.ver = defaultNet.ScriptHashAddrID
         IN  IF isP2PKH /\ isP2SH THEN <<Nil, "ErrAddressCollision">>
             ELSE IF isP2PKH
             THEN <<[type |-> "AddressPubKeyHash", hash |-> addr.hash,
                     prefix |-> addr.prefix], NoErr>>
             ELSE IF isP2SH
             THEN <<[type |-> "AddressScriptHash", hash |-> addr.hash,
                     prefix |-> addr.prefix], NoErr>>
             ELSE <<Nil, "ErrUnknownAddressType">>

\* txscript.PayToAddrScript(address).
PayToAddrScript(address) ==
    CASE address.type = "AddressPubKeyHash" ->
            Script(<<Opcode("OP_DUP"), Opcode("OP_HASH160"), Push(address.hash),
                     Opcode("OP_EQUALVERIFY"), Opcode("OP_CHECKSIG")>>)
      [] address.type = "AddressScriptHash" ->
            Script(<<Opcode("OP_HASH160"), Push(address.hash), Opcode("OP_EQUAL")>>)
      [] address.type = "AddressWitnessPubKeyHash" ->
            Script(<<Opcode("OP_0"), Push(address.hash)>>)

\* chainhash.NewHashFromStr: <<hash, error>>.  A string of more than 64
\* characters, or with a character that is no hex digit, is refused.
BadHashStr == [hashstr |-> "zz"]
NewHashFromStr(str) ==
    IF str = BadHashStr THEN <<Nil, "ErrHashStrSize">>
    ELSE <<[hash |-> str.hashstr], NoErr>>

-----------------------------------------------------------------------------
(* wire.MsgTx *)

\* wire.TxVersion.
TxVersion == 1

\* wire.NewMsgTx(version).
NewMsgTx(version) == [Version |-> version, TxIn |-> << >>, TxOut |-> << >>, LockTime |-> 0]

\* An input built without the script of the request, wire.NewTxIn(prevOut,
\* nil, nil).
NewTxInWithoutScript(hash, index, signatureScript, sequence) ==
    [PreviousOutPoint |-> [Hash |-> hash, Index |-> index],
     SignatureScript  |-> EmptyScript,
     Witness          |-> << >>,
     Sequence         |-> sequence]

\* wire.NewTxIn(prevOut, signatureScript, witness) with the sequence set.
NewTxIn(hash, index, signatureScript, sequence) ==
    [PreviousOutPoint |-> [Hash |-> hash, Index |-> index],
     SignatureScript  |-> signatureScript,
     Witness          |-> << >>,
     Sequence         |-> sequence]

\* wire.NewTxOut(value, pkScript).
NewTxOut(value, pkScript) == [Value |-> value, PkScript |-> pkScript]

\* MsgTx.HasWitness(): some input has a non-empty witness stack.
HasWitness(tx) == \E i \in 1..Len(tx.TxIn) : Len(tx.TxIn[i].Witness) # 0

\* MsgTx.SerializeNoWitness: version, inputs (outpoint, script, sequence),
\* outputs and lock time.
SerializeNoWitness(tx) ==
    [Version  |-> tx.Version,
     TxIn     |-> [i \in 1..Len(tx.TxIn) |->
                     [PreviousOutPoint |-> tx.TxIn[i].PreviousOutPoint,
                      SignatureScript  |-> tx.TxIn[i].SignatureScript,
                      Sequence         |-> tx.TxIn[i].Sequence]],
     TxOut    |-> tx.TxOut,
     LockTime |-> tx.LockTime]

\* MsgTx.Serialize / BtcEncode with wire.WitnessEncoding: the BIP144 layout
\* (marker, flag, the legacy fields, one witness stack per input) when the
\* transaction has witness data, the legacy layout when it has none.
Serialize(tx) ==
    IF HasWitness(tx)
    THEN [segwit  |-> TRUE,
          legacy  |-> SerializeNoWitness(tx),
          witness |-> [i \in 1..Len(tx.TxIn) |-> tx.TxIn[i].Witness]]
    ELSE [segwit  |-> FALSE,
          legacy  |-> SerializeNoWitness(tx),
          witness |-> << >>]

\* chainhash.DoubleHashH.
DoubleHashH(bytes) == [sha256d |-> bytes]

\* MsgTx.TxHash(): the double hash of the legacy layout.
TxHash(tx) ==
    DoubleHashH([segwit |-> FALSE, legacy |-> SerializeNoWitness(tx), witness |-> << >>])

\* A witness hash that is the transaction hash in every case.
WitnessHashLegacy(tx) == TxHash(tx)

\* MsgTx.WitnessHash(): the double hash of the BIP144 layout when the
\* transaction has witness data, TxHash() otherwise.
WitnessHash(tx) ==
    IF HasWitness(tx) THEN DoubleHashH(Serialize(tx)) ELSE TxHash(tx)

\* encodeMsgTx: the RawTx of a transaction.
encodeMsgTx(tx) ==
    [Hex         |-> [hex |-> Serialize(tx)],
     Hash        |-> TxHash(tx),
     WitnessHash |-> WitnessHash(tx)]

\* hex.DecodeString(s): <<bytes, error>>.
HexDecodeString(s) ==
    IF "hex" \in DOMAIN s THEN <<s.hex, NoErr>> ELSE <<Nil, "InvalidByteError">>

\* The bytes of a serialized transaction cut short: before the end of the
\* version field (the empty string is such a string), or after the outputs
\* and witnesses and before the end of the lock time.
Truncate(bytes, at) == [truncated |-> bytes, at |-> at]

\* The transaction that complete bytes hold.
BtcDecode(b) ==
    [Version  |-> b.legacy.Version,
     TxIn     |-> [i \in 1..Len(b.legacy.TxIn) |->
                     [PreviousOutPoint |-> b.legacy.TxIn[i].PreviousOutPoint,
                      SignatureScript  |-> b.legacy.TxIn[i].SignatureScript,
                      Witness          |-> IF b.segwit THEN b.witness[i] ELSE << >>,
                      Sequence         |-> b.legacy.TxIn[i].Sequence]],
     TxOut    |-> b.legacy.TxOut,
     LockTime |-> b.legacy.LockTime]

\* MsgTx.Deserialize(r) on the transaction msg: <<msg as the call leaves it,
\* error>>.  The fields are written as they are read: bytes that end within
\* the version leave msg as it was, bytes that end within the lock time
\* leave it with the version, inputs and outputs read and a lock time of 0.
Deserialize(msg, b) ==
    IF "truncated" \in DOMAIN b
    THEN IF b.at = "Version" THEN <<msg, "EOF">>
         ELSE <<[BtcDecode(b.truncated) EXCEPT !.LockTime = 0], "unexpected EOF">>
    ELSE <<BtcDecode(b), NoErr>>

\* Service.DeserializeMsgTx(rawTx): <<msgTx, error>>.  The error of
\* hex.DecodeString is returned; the error of msgTx.Deserialize is dropped,
\* and the transaction is returned as Deserialize left it.
DeserializeMsgTx(rawTx) ==
    LET hexBytes == HexDecodeString(rawTx.Hex)
    IN  IF hexBytes[2] # NoErr THEN <<Nil, hexBytes[2]>>
        ELSE <<Deserialize(NewMsgTx(TxVersion), hexBytes[1])[1], NoErr>>

-----------------------------------------------------------------------------
(* Service.CreateTransaction *)

\* The loop over tx.Inputs: <<inputs built, error>>.
RECURSIVE AddTxIns(_, _, _)
AddTxIns(inputs, n, acc) ==
    IF n > Len(inputs) THEN <<acc, NoErr>>
    ELSE LET outputHash == NewHashFromStr(inputs[n].OutputHash)
         IN  IF outputHash[2] # NoErr THEN <<Nil, outputHash[2]>>
             ELSE AddTxIns(inputs, n + 1,
                           Append(acc, NewTxIn(outputHash[1], inputs[n].OutputIndex,
                                               inputs[n].Script, inputs[n].Sequence)))

\* The loop over tx.Outputs: <<outputs built, error>>.
RECURSIVE AddTxOuts(_, _, _, _)
AddTxOuts(outputs, chainParams, n, acc) ==
    IF n > Len(outputs) THEN <<acc, NoErr>>
    ELSE LET address == DecodeAddress(outputs[n].Address, chainParams)
         IN  IF address[2] # NoErr THEN <<Nil, address[2]>>
             ELSE AddTxOuts(outputs, chainParams, n + 1,
                            Append(acc, NewTxOut(outputs[n].Value,
                                                 PayToAddrScript(address[1]))))

\* The *wire.MsgTx that CreateTransaction assembles: <<msgTx, error>>.
BuildMsgTx(tx, chainParams) ==
    LET ins == AddTxIns(tx.Inputs, 1, << >>)
    IN  IF ins[2] # NoErr THEN <<Nil, ins[2]>>
        ELSE LET outs == AddTxOuts(tx.Outputs, chainParams, 1, << >>)
             IN  IF outs[2] # NoErr THEN <<Nil, outs[2]>>
                 ELSE <<[Version  |-> TxVersion,
                         TxIn     |-> ins[1],
                         TxOut    |-> outs[1],
                         LockTime |-> tx.LockTime], NoErr>>

\* Service.CreateTransaction(tx, chainParams): <<RawTx, error>>.
CreateTransaction(tx, chainParams) ==
    LET built == BuildMsgTx(tx, chainParams)
    IN  IF built[2] # NoErr THEN <<Nil, built[2]>>
        ELSE <<encodeMsgTx(built[1]), NoErr>>

-----------------------------------------------------------------------------
(* core.Service.CreateTransaction with fee and change, and its controller *)

\* The sum of the Value fields of a list.
RECURSIVE SumValues(_)
SumValues(list) ==
    IF Len(list) = 0 THEN 0 ELSE list[1].Value + SumValues(Tail(list))

\* The estimated size in bytes of a transaction with nIn inputs and nOut
\* outputs: a linear estimate, 109 bytes for one input and one output.
EstimateSize(nIn, nOut) == 10 + 65 * nIn + 34 * nOut

\* The fee for a size at a rate in satoshis per 1000 bytes, rounded down.
FeeForSerializeSize(feeSatPerKb, size) == (feeSatPerKb * size) \div 1000

\* The fee of a request: its rate applied to the estimated size.
ComputedFee(tx) ==
    FeeForSerializeSize(tx.FeeSatPerKb, EstimateSize(Len(tx.Inputs), Len(tx.Outputs)))

\* core.Service.CreateTransaction(tx, chainParams): <<RawTxWithChangeFees,
\* error>>.  With a fee rate and a change address, the inputs must cover the
\* recipients and the fee: the shortfall is reported in NotEnoughUtxo, and
\* what is left over goes to a change output.
CoreCreateTransaction(tx, chainParams) ==
    LET built   == BuildMsgTx(tx, chainParams)
        withFee == tx.FeeSatPerKb > 0 /\ tx.ChangeAddress # Nil
        X       == SumValues(tx.Inputs)
        Y       == SumValues(tx.Outputs)
        F       == IF withFee THEN ComputedFee(tx) ELSE 0
        change  == IF withFee THEN DecodeAddress(tx.ChangeAddress, chainParams)
                   ELSE <<Nil, NoErr>>
    IN  IF built[2] # NoErr THEN <<Nil, built[2]>>
        ELSE IF change[2] # NoErr THEN <<Nil, change[2]>>
        ELSE IF withFee /\ X < Y + F
        THEN <<[RawTx     |-> [Hex |-> Nil, Hash |-> Nil, WitnessHash |-> Nil,
                               NotEnoughUtxo |-> [MissingAmount |-> Y + F - X]],
                Change    |-> 0,
                TotalFees |-> F], NoErr>>
        ELSE LET full == IF withFee /\ X - Y - F > 0
                         THEN [built[1] EXCEPT !.TxOut =
                                  Append(@, NewTxOut(X - Y - F, PayToAddrScript(change[1])))]
                         ELSE built[1]
             IN  <<[RawTx     |-> [Hex           |-> encodeMsgTx(full).Hex,
                                   Hash          |-> encodeMsgTx(full).Hash,
                                   WitnessHash   |-> encodeMsgTx(full).WitnessHash,
                                   NotEnoughUtxo |-> Nil],
                    Change    |-> IF withFee THEN X - Y - F ELSE 0,
                    TotalFees |-> F], NoErr>>

\* strconv.ParseInt(s, 10, 64): <<value, error>>.
ParseInt(s) == IF "dec" \in DOMAIN s THEN <<s.dec, NoErr>> ELSE <<0, "ErrSyntax">>

\* The loop of the Tx adapter over the outputs of the request: <<outputs, error>>.
RECURSIVE AdaptOutputs(_, _, _)
AdaptOutputs(outputs, n, acc) ==
    IF n > Len(outputs) THEN <<acc, NoErr>>
    ELSE LET value == ParseInt(outputs[n].Value)
         IN  IF value[2] # NoErr THEN <<Nil, value[2]>>
             ELSE AdaptOutputs(outputs, n + 1,
                               Append(acc, [Address |-> outputs[n].Address,
                                            Value   |-> value[1]]))

\* Tx(txProto) of the adapters: <<*core.Tx, error>>.  The inputs keep their
\* hash, index, script and value; the sequence field is the zero value.
Tx(txProto) ==
    LET outputs == AdaptOutputs(txProto.Outputs, 1, << >>)
    IN  IF outputs[2] # NoErr THEN <<Nil, outputs[2]>>
        ELSE <<[Inputs        |-> [i \in 1..Len(txProto.Inputs) |->
                                     [OutputHash  |-> txProto.Inputs[i].OutputHash,
                                      OutputIndex |-> txProto.Inputs[i].OutputIndex,
                                      Script      |-> txProto.Inputs[i].Script,
                                      Sequence    |-> 0,
                                      Value       |-> txProto.Inputs[i].Value]],
                Outputs       |-> outputs[1],
                ChangeAddress |-> txProto.ChangeAddress,
                FeeSatPerKb   |-> txProto.FeeSatPerKb,
                LockTime      |-> txProto.LockTime], NoErr>>

\* A controller that never copies NotEnoughUtxo to the response.
ResponseNotEnoughUtxoDropped(rawTx) == Nil

\* The NotEnoughUtxo of the response: copied when the service set one.
ResponseNotEnoughUtxo(rawTx) ==
    IF rawTx.NotEnoughUtxo # Nil
    THEN [MissingAmount |-> rawTx.NotEnoughUtxo.MissingAmount]
    ELSE Nil

\* controller.CreateTransaction(ctx, txRequest): <<response, status code>>.
ControllerCreateTransaction(txRequest) ==
    LET chainParams == ChainParams(txRequest.ChainParams)
        tx          == Tx(txRequest)
    IN  IF chainParams[2] # NoErr THEN <<Nil, "InvalidArgument">>
        ELSE IF tx[2] # NoErr THEN <<Nil, "InvalidArgument">>
        ELSE LET rawTxWithExtra == CoreCreateTransaction(tx[1], chainParams[1])
             IN  IF rawTxWithExtra[2] # NoErr THEN <<Nil, "Internal">>
                 ELSE <<[Hex           |-> rawTxWithExtra[1].RawTx.Hex,
                         Hash          |-> rawTxWithExtra[1].RawTx.Hash,
                         WitnessHash   |-> rawTxWithExtra[1].RawTx.WitnessHash,
                         ChangeAmount  |-> rawTxWithExtra[1].Change,
                         TotalFees     |-> rawTxWithExtra[1].TotalFees,
                         NotEnoughUtxo |-> ResponseNotEnoughUtxo(rawTxWithExtra[1].RawTx)],
                        NoErr>>

-----------------------------------------------------------------------------
(* Service.GenerateDerSignatures *)

\* The loop over one utxo's derivation path with ExtendedKey.Derive:
\* <<key, error>>, stopping at the first index that fails.
RECURSIVE DerivePath(_, _, _)
DerivePath(k, path, n) ==
    IF n > Len(path) THEN <<k, NoErr>>
    ELSE LET c == Derive(k, path[n])
         IN  IF c[2] # NoErr THEN <<Nil, c[2]>>
             ELSE DerivePath(c[1], path, n + 1)

\* Whether txscript can parse a script: every item is an opcode or a push.
IsParsable(script) ==
    \A i \in 1..Len(script.script) :
        "opc" \in DOMAIN script.script[i] \/ "push" \in DOMAIN script.script[i]

\* Whether a script is a pay-to-witness-pubkey-hash program, OP_0 <20 bytes>.
isWitnessPubKeyHash(script) ==
    /\ Len(script.script) = 2
    /\ script.script[1] = Opcode("OP_0")
    /\ "push" \in DOMAIN script.script[2]

\* The BIP143 digest txscript signs for input idx: the version, all
\* outpoints, all sequences, the outpoint, script code, amount and sequence
\* of the input, all outputs, the lock time and the hash type.  Signature
\* scripts and witnesses are not part of it.
calcWitnessSignatureHash(tx, idx, amount, subScript, hashType) ==
    [Version      |-> tx.Version,
     hashPrevouts |-> [i \in 1..Len(tx.TxIn) |-> tx.TxIn[i].PreviousOutPoint],
     hashSequence |-> [i \in 1..Len(tx.TxIn) |-> tx.TxIn[i].Sequence],
     outpoint     |-> tx.TxIn[idx].PreviousOutPoint,
     scriptCode   |-> IF isWitnessPubKeyHash(subScript)
                      THEN Script(<<Opcode("OP_DUP"), Opcode("OP_HASH160"),
                                    Push(subScript.script[2].push),
                                    Opcode("OP_EQUALVERIFY"), Opcode("OP_CHECKSIG")>>)
                      ELSE subScript,
     amount       |-> amount,
     sequence     |-> tx.TxIn[idx].Sequence,
     hashOutputs  |-> tx.TxOut,
     LockTime     |-> tx.LockTime,
     hashType     |-> hashType]

\* txscript.RawTxInWitnessSignature: <<DER signature with the hash type byte
\* appended, error>>.  The ECDSA signature is deterministic (RFC 6979): it
\* is the term of the signing key and the digest.
RawTxInWitnessSignature(tx, idx, amount, subScript, hashType, ecPrivKey) ==
    IF ~IsParsable(subScript) THEN <<Nil, "cannot parse output script">>
    ELSE <<[signer   |-> ecPrivKey,
            digest   |-> calcWitnessSignatureHash(tx, idx, amount, subScript, hashType),
            hashType |-> hashType], NoErr>>

\* The extended key that the derivation for the next input starts from, given
\* the key the caller supplied and the key derived for the current input:
\* the loop assigns every derived child back to extendedKey.
NextExtendedKey(suppliedKey, derivedKey) == derivedKey

\* The loop over msgTx.TxIn: <<signatures, error>>.
RECURSIVE SignInputs(_, _, _, _, _, _)
SignInputs(tx, utxos, suppliedKey, extendedKey, idx, derSignatures) ==
    IF idx > Len(tx.TxIn) THEN <<derSignatures, NoErr>>
    ELSE LET utxo == utxos[idx]
             d    == DerivePath(extendedKey, utxo.Derivation, 1)
         IN  IF d[2] # NoErr THEN <<Nil, d[2]>>
             ELSE IF ~d[1].isPrivate THEN <<Nil, "ErrNotPrivExtKey">>
             ELSE LET derSig == RawTxInWitnessSignature(tx, idx, utxo.Value, utxo.Script,
                                                        "SigHashAll", d[1].key)
                  IN  IF derSig[2] # NoErr THEN <<Nil, derSig[2]>>
                      ELSE SignInputs(tx, utxos, suppliedKey,
                                      NextExtendedKey(suppliedKey, d[1]),
                                      idx + 1, Append(derSignatures, derSig[1]))

\* GenerateDerSignatures refusing only a list of utxos that is too short.
GenerateDerSignaturesAtLeast(tx, utxos, privKey) ==
    IF Len(tx.TxIn) > Len(utxos) THEN <<Nil, "inputs length != utxos length">>
    ELSE LET parsed == NewKeyFromString(privKey)
         IN  IF parsed[2] # NoErr THEN <<Nil, parsed[2]>>
             ELSE SignInputs(tx, utxos, parsed[1], parsed[1], 1, << >>)

\* Service.GenerateDerSignatures(msgTx, utxos, privKey): <<signatures, error>>.
GenerateDerSignatures(tx, utxos, privKey) ==
    IF Len(tx.TxIn) # Len(utxos) THEN <<Nil, "inputs length != utxos length">>
    ELSE LET parsed == NewKeyFromString(privKey)
         IN  IF parsed[2] # NoErr THEN <<Nil, parsed[2]>>
             ELSE SignInputs(tx, utxos, parsed[1], parsed[1], 1, << >>)

-----------------------------------------------------------------------------
(* Service.SignTransaction *)

\* The AddressEncoding enumeration.
Legacy == 0
WrappedSegwit == 1
NativeSegwit == 2

\* A signature script built for every input that is not P2PKH.
SigScriptForSegwit(signature, chainParams) ==
    IF signature.AddrEncoding # Legacy
    THEN LET pubKeyHash   == Hash160(SerializeCompressed(signature.PubKey))
             p2wkhAddr    == NewAddressWitnessPubKeyHash(pubKeyHash, chainParams)
             redeemScript == PayToAddrScript(p2wkhAddr)
         IN  Script(<<Push(redeemScript)>>)
    ELSE EmptyScript

\* The signature script of one input: a single push of the P2WPKH redeem
\* script for a P2WPKH-in-P2SH input, nothing otherwise.
SigScriptFor(signature, chainParams) ==
    IF signature.AddrEncoding = WrappedSegwit
    THEN LET pubKeyHash   == Hash160(SerializeCompressed(signature.PubKey))
             p2wkhAddr    == NewAddressWitnessPubKeyHash(pubKeyHash, chainParams)
             redeemScript == PayToAddrScript(p2wkhAddr)
         IN  Script(<<Push(redeemScript)>>)
    ELSE EmptyScript

\* A loop body that attaches no witness to a P2PKH input.
SignedTxInSegwitOnly(input, signature, chainParams) ==
    [input EXCEPT !.SignatureScript = SigScriptFor(signature, chainParams),
                  !.Witness = IF signature.AddrEncoding = Legacy THEN << >>
                              ELSE <<signature.DerSig, SerializeCompressed(signature.PubKey)>>]

\* The body of the loop over msgTx.TxIn: the input with its signature script
\* and witness set from the signature entry at the same index.
SignedTxIn(input, signature, chainParams) ==
    [input EXCEPT !.SignatureScript = SigScriptFor(signature, chainParams),
                  !.Witness = <<signature.DerSig, SerializeCompressed(signature.PubKey)>>]

\* SignTransaction validating the lengths only after its loop, which signs
\* the inputs that have an entry.
SignTransactionLateCheck(tx, chainParams, signatures) ==
    LET signed == [tx EXCEPT !.TxIn = [i \in 1..Len(tx.TxIn) |->
                                         IF i <= Len(signatures)
                                         THEN SignedTxIn(tx.TxIn[i], signatures[i], chainParams)
                                         ELSE tx.TxIn[i]]]
    IN  IF Len(tx.TxIn) # Len(signatures)
        THEN <<signed, Nil, "inputs length != signatures length">>
        ELSE <<signed, encodeMsgTx(signed), NoErr>>

\* Service.SignTransaction(msgTx, chainParams, signatures):
\* <<msgTx as the call leaves it, RawTx, error>>.  The inputs are written
\* through the caller's pointer.
SignTransaction(tx, chainParams, signatures) ==
    IF Len(tx.TxIn) # Len(signatures)
    THEN <<tx, Nil, "inputs length != signatures length">>
    ELSE LET signed == [tx EXCEPT !.TxIn = [i \in 1..Len(tx.TxIn) |->
                                              SignedTxIn(tx.TxIn[i], signatures[i], chainParams)]]
         IN  <<signed, encodeMsgTx(signed), NoErr>>

-----------------------------------------------------------------------------
(* Service.ValidateAddress and Service.EncodeAddress *)

\* A parser that reads the coordinates and checks neither their range nor
\* the curve equation.
ParsePubKeyNoCurveCheck(pubKeyStr) ==
    IF "compressed" \in DOMAIN pubKeyStr THEN <<pubKeyStr.compressed, NoErr>>
    ELSE IF "uncompressed" \in DOMAIN pubKeyStr THEN <<pubKeyStr.uncompressed, NoErr>>
    ELSE IF "hybrid" \in DOMAIN pubKeyStr THEN <<pubKeyStr.hybrid, NoErr>>
    ELSE IF "bytes" \in DOMAIN pubKeyStr
    THEN IF pubKeyStr.bytes = "" THEN <<Nil, "pubkey string is empty">>
         ELSE <<Nil, "invalid pub key length 1">>
    ELSE <<[coordinates |-> pubKeyStr], NoErr>>

\* btcec.ParsePubKey(pubKeyStr, curve): <<public key, error>>.  The
\* compressed, uncompressed and hybrid forms of a point of the curve are
\* taken.  Refused are the empty string, a string of another length than 33
\* or 65 bytes, one with a coordinate that is not below the field prime P, and
\* one whose coordinates are no point of the curve (found when the point of a
\* compressed key is decompressed, or in the last check for the other forms).
ParsePubKey(pubKeyStr) ==
    IF "compressed" \in DOMAIN pubKeyStr THEN <<pubKeyStr.compressed, NoErr>>
    ELSE IF "uncompressed" \in DOMAIN pubKeyStr THEN <<pubKeyStr.uncompressed, NoErr>>
    ELSE IF "hybrid" \in DOMAIN pubKeyStr THEN <<pubKeyStr.hybrid, NoErr>>
    ELSE IF "bytes" \in DOMAIN pubKeyStr
    THEN IF pubKeyStr.bytes = "" THEN <<Nil, "pubkey string is empty">>
         ELSE <<Nil, "invalid pub key length 1">>
    ELSE IF "xNotBelowP" \in DOMAIN pubKeyStr
    THEN <<Nil, "pubkey X parameter is >= to P">>
    ELSE IF "offCurve" \in DOMAIN pubKeyStr
    THEN IF pubKeyStr.offCurve = "compressed" THEN <<Nil, "invalid square root">>
         ELSE <<Nil, "pubkey isn't on secp256k1 curve">>
    ELSE <<Nil, "invalid pub key">>

\* The text of errors.Wrapf(err, format, ...): the message, ": ", and the
\* text of err, as the list of its parts from the outermost message to the
\* cause.  The arguments of the format are left out.
Wrapf(text, format) == <<format>> \o text

\* Service.ValidateAddress(address, chainParams): <<normalized address,
\* cause of the error, text of the error>>.
ValidateAddress(address, chainParams) ==
    LET addr == DecodeAddress(address, chainParams)
    IN  IF addr[2] # NoErr
        THEN <<Nil, addr[2], Wrapf(<<addr[2]>>, "failed to decode address %s")>>
        ELSE <<AddrEncodeAddress(addr[1]), NoErr, << >> >>

\* EncodeAddress with the hash taken over the key bytes as they were given.
EncodeAddressHashAsGiven(publicKey, encoding, chainParams) ==
    LET loadedPublicKey == ParsePubKey(publicKey)
        publicKeyHash   == Hash160(publicKey)
        p2wpkhAddress   == NewAddressWitnessPubKeyHash(publicKeyHash, chainParams)
        redeemScript    == PayToAddrScript(p2wpkhAddress)
    IN  IF loadedPublicKey[2] # NoErr
        THEN <<Nil, loadedPublicKey[2],
               Wrapf(<<loadedPublicKey[2]>>, "failed to parse public key %s")>>
        ELSE IF encoding = Legacy
        THEN <<AddrEncodeAddress(NewAddressPubKeyHash(publicKeyHash, chainParams)),
               NoErr, << >> >>
        ELSE IF encoding = WrappedSegwit
        THEN <<AddrEncodeAddress(NewAddressScriptHash(redeemScript, chainParams)),
               NoErr, << >> >>
        ELSE IF encoding = NativeSegwit
        THEN <<AddrEncodeAddress(p2wpkhAddress), NoErr, << >> >>
        ELSE <<Nil, "ErrUnknownAddressType",
               Wrapf(<<"ErrUnknownAddressType">>,
                     "unable to encode public key %s to address")>>

\* Service.EncodeAddress(publicKey, encoding, chainParams): <<address, cause
\* of the error, text of the error>>.
EncodeAddress(publicKey, encoding, chainParams) ==
    LET loadedPublicKey == ParsePubKey(publicKey)
        publicKeyHash   == Hash160(SerializeCompressed(loadedPublicKey[1]))
        p2wpkhAddress   == NewAddressWitnessPubKeyHash(publicKeyHash, chainParams)
        redeemScript    == PayToAddrScript(p2wpkhAddress)
    IN  IF loadedPublicKey[2] # NoErr
        THEN <<Nil, loadedPublicKey[2],
               Wrapf(<<loadedPublicKey[2]>>, "failed to parse public key %s")>>
        ELSE IF encoding = Legacy
        THEN <<AddrEncodeAddress(NewAddressPubKeyHash(publicKeyHash, chainParams)),
               NoErr, << >> >>
        ELSE IF encoding = WrappedSegwit
        THEN <<AddrEncodeAddress(NewAddressScriptHash(redeemScript, chainParams)),
               NoErr, << >> >>
        ELSE IF encoding = NativeSegwit
        THEN <<AddrEncodeAddress(p2wpkhAddress), NoErr, << >> >>
        ELSE <<Nil, "ErrUnknownAddressType",
               Wrapf(<<"ErrUnknownAddressType">>,
                     "unable to encode public key %s to address")>>

-----------------------------------------------------------------------------
(* Service.GetAccountExtendedKey and Service.GetKeypair *)

\* hdkeychain.NewExtendedKey(version, key, chainCode, parentFP, depth,
\* childNum, isPrivate).
NewExtendedKey(version, key, chainCode, parentFP, depth, childNum, isPrivate) ==
    [version   |-> version,
     depth     |-> depth,
     parentFP  |-> parentFP,
     childNum  |-> childNum,
     chainCode |-> chainCode,
     key       |-> key,
     isPrivate |-> isPrivate,
     short     |-> FALSE]

\* accountIndex + hdkeychain.HardenedKeyStart in uint32: adding 2^31 flips the
\* top bit, and the carry is lost.
PlusHardenedKeyStart(accountIndex) == U32(~accountIndex.h, accountIndex.n)

\* GetAccountExtendedKey writing the zero fingerprint of a master key.
GetAccountExtendedKeyZeroFingerprint(publicKey, chainCode, accountIndex, chainParams) ==
    LET loadedPublicKey == ParsePubKey(publicKey)
        childNum        == PlusHardenedKeyStart(accountIndex)
        key             == NewExtendedKey(chainParams.HDPublicKeyID, loadedPublicKey[1],
                                          chainCode, Nil, 3, childNum, FALSE)
    IN  IF loadedPublicKey[2] # NoErr THEN <<Nil, loadedPublicKey[2]>>
        ELSE <<String(key), NoErr>>

\* Service.GetAccountExtendedKey(publicKey, chainCode, accountIndex,
\* chainParams): <<extended key, error>>.  The fingerprint written as the
\* parent's is the one of the key itself.
GetAccountExtendedKey(publicKey, chainCode, accountIndex, chainParams) ==
    LET loadedPublicKey == ParsePubKey(publicKey)
        childNum        == PlusHardenedKeyStart(accountIndex)
        parentFP        == Fingerprint(loadedPublicKey[1])
        key             == NewExtendedKey(chainParams.HDPublicKeyID, loadedPublicKey[1],
                                          chainCode, parentFP, 3, childNum, FALSE)
    IN  IF loadedPublicKey[2] # NoErr THEN <<Nil, loadedPublicKey[2]>>
        ELSE <<String(key), NoErr>>

\* A seed string: its text and its length in bytes.  The empty string has
\* length 0.
Seed(text, len) == [text |-> text, len |-> len]

\* hdkeychain.NewMaster(seed, net): <<master key, error>>.  The seed must be
\* 16 to 64 bytes long; the key and the chain code are the halves of
\* HMAC-SHA512("Bitcoin seed", seed).
NewMaster(seed, net) ==
    IF seed.len < 16 \/ seed.len > 64 THEN <<Nil, "ErrInvalidSeedLen">>
    ELSE <<NewExtendedKey(net.HDPrivateKeyID, [masterKey |-> seed.text],
                          [masterChainCode |-> seed.text], Nil, 0, U32(FALSE, 0), TRUE),
           NoErr>>

\* ExtendedKey.Neuter(): the public extended key of a private one, with the
\* public version bytes of the same network; a public key is returned as is.
Neuter(k) ==
    IF ~k.isPrivate THEN k
    ELSE NewExtendedKey(Version(k.version.net, "pub"), pubKeyBytes(k), k.chainCode,
                        k.parentFP, k.depth, k.childNum, FALSE)

\* Keypair{}: the zero value returned beside an error.
EmptyKeypair == [ExtendedPublicKey |-> Nil, PrivateKey |-> Nil]

\* hdkeychain.RecommendedSeedLen, in bytes.
RecommendedSeedLen == 32

\* hdkeychain.GenerateSeed(length): <<seed, error>>, where random is what
\* crypto/rand gives.  The length must be 16 to 64 bytes.
GenerateSeed(length, random) ==
    IF length < 16 \/ length > 64 THEN <<Nil, "ErrInvalidSeedLen">>
    ELSE <<Seed(random, length), NoErr>>

\* GetKeypair taking a generated seed whatever the caller passes.
GetKeypairFreshSeed(seed, chainParams, derivation, random) ==
    LET generatedSeed == GenerateSeed(RecommendedSeedLen, random)
        master        == NewMaster(generatedSeed[1], chainParams)
        d             == DerivePath(master[1], derivation, 1)
    IN  IF generatedSeed[2] # NoErr THEN <<EmptyKeypair, generatedSeed[2]>>
        ELSE IF master[2] # NoErr THEN <<EmptyKeypair, master[2]>>
        ELSE IF d[2] # NoErr THEN <<EmptyKeypair, d[2]>>
        ELSE <<[ExtendedPublicKey |-> String(Neuter(d[1])),
                PrivateKey        |-> String(d[1])], NoErr>>

\* GetKeypair returning the public key of the master node beside the private
\* key of the node the path leads to.
GetKeypairNeuterMaster(seed, chainParams, derivation, random) ==
    LET generatedSeed == GenerateSeed(RecommendedSeedLen, random)
        seedBytes     == IF seed.len = 0 THEN generatedSeed[1] ELSE seed
        master        == NewMaster(seedBytes, chainParams)
        d             == DerivePath(master[1], derivation, 1)
    IN  IF seed.len = 0 /\ generatedSeed[2] # NoErr THEN <<EmptyKeypair, generatedSeed[2]>>
        ELSE IF master[2] # NoErr THEN <<EmptyKeypair, master[2]>>
        ELSE IF d[2] # NoErr THEN <<EmptyKeypair, d[2]>>
        ELSE <<[ExtendedPublicKey |-> String(Neuter(master[1])),
                PrivateKey        |-> String(d[1])], NoErr>>

\* Service.GetKeypair(seed, chainParams, derivation): <<Keypair, error>>,
\* where random is what the random source gives hdkeychain.GenerateSeed when
\* it is called, which is when the seed is empty.  A seed of the caller is
\* taken as its bytes, []byte(seed).
GetKeypair(seed, chainParams, derivation, random) ==
    LET generatedSeed == GenerateSeed(RecommendedSeedLen, random)
        seedBytes     == IF seed.len = 0 THEN generatedSeed[1] ELSE seed
        master        == NewMaster(seedBytes, chainParams)
        d             == DerivePath(master[1], derivation, 1)
    IN  IF seed.len = 0 /\ generatedSeed[2] # NoErr THEN <<EmptyKeypair, generatedSeed[2]>>
        ELSE IF master[2] # NoErr THEN <<EmptyKeypair, master[2]>>
        ELSE IF d[2] # NoErr THEN <<EmptyKeypair, d[2]>>
        ELSE <<[ExtendedPublicKey |-> String(Neuter(d[1])),
                PrivateKey        |-> String(d[1])], NoErr>>

-----------------------------------------------------------------------------
(* The adapters and the controller of the gRPC service *)

\* The address encodings of the gRPC messages.
ADDRESS_ENCODING_UNSPECIFIED == 0
ADDRESS_ENCODING_P2PKH == 1
ADDRESS_ENCODING_P2SH_P2WPKH == 2
ADDRESS_ENCODING_P2WPKH == 3

\* An adapter that takes every value it does not know for P2PKH.
BitcoinAddressEncodingDefaulting(encoding) ==
    CASE encoding = ADDRESS_ENCODING_P2SH_P2WPKH -> <<WrappedSegwit, NoErr, << >> >>
      [] encoding = ADDRESS_ENCODING_P2WPKH -> <<NativeSegwit, NoErr, << >> >>
      [] OTHER -> <<Legacy, NoErr, << >> >>

\* BitcoinAddressEncoding(encoding) of the adapters: <<encoding, cause of the
\* error, text of the error>>.
BitcoinAddressEncoding(encoding) ==
    CASE encoding = ADDRESS_ENCODING_P2PKH -> <<Legacy, NoErr, << >> >>
      [] encoding = ADDRESS_ENCODING_P2SH_P2WPKH -> <<WrappedSegwit, NoErr, << >> >>
      [] encoding = ADDRESS_ENCODING_P2WPKH -> <<NativeSegwit, NoErr, << >> >>
      [] OTHER -> <<-1, "ErrUnknownAddressType",
                    Wrapf(<<"ErrUnknownAddressType">>, "invalid address encoding %s")>>

\* The text of the error of ChainParams(chainParams).
ChainParamsErrorText ==
    Wrapf(<<"ErrUnknownNetwork">>, "failed to decode chain params from network %s")

\* A controller that returns the address of the request for a valid address
\* too.
ControllerValidateAddressEcho(request) ==
    LET chainParams == ChainParams(request.ChainParams)
        addr        == ValidateAddress(request.Address, chainParams[1])
    IN  IF chainParams[2] # NoErr
        THEN <<Nil, "InvalidArgument", ChainParamsErrorText>>
        ELSE IF addr[2] # NoErr
        THEN <<[Address       |-> request.Address,
                IsValid       |-> FALSE,
                InvalidReason |-> addr[3]], NoErr, << >> >>
        ELSE <<[Address       |-> request.Address,
                IsValid       |-> TRUE,
                InvalidReason |-> << >>], NoErr, << >> >>

\* controller.ValidateAddress(ctx, request): <<response, status code, status
\* message>>.
ControllerValidateAddress(request) ==
    LET chainParams == ChainParams(request.ChainParams)
        addr        == ValidateAddress(request.Address, chainParams[1])
    IN  IF chainParams[2] # NoErr
        THEN <<Nil, "InvalidArgument", ChainParamsErrorText>>
        ELSE IF addr[2] # NoErr
        THEN <<[Address       |-> request.Address,
                IsValid       |-> FALSE,
                InvalidReason |-> addr[3]], NoErr, << >> >>
        ELSE <<[Address       |-> addr[1],
                IsValid       |-> TRUE,
                InvalidReason |-> << >>], NoErr, << >> >>

\* controller.EncodeAddress(ctx, request): <<response, status code, status
\* message>>.
ControllerEncodeAddress(request) ==
    LET chainParams == ChainParams(request.ChainParams)
        encoding    == BitcoinAddressEncoding(request.Encoding)
        address     == EncodeAddress(request.PublicKey, encoding[1], chainParams[1])
    IN  IF chainParams[2] # NoErr
        THEN <<Nil, "InvalidArgument", ChainParamsErrorText>>
        ELSE IF encoding[2] # NoErr THEN <<Nil, "InvalidArgument", encoding[3]>>
        ELSE IF address[2] # NoErr THEN <<Nil, "InvalidArgument", address[3]>>
        ELSE <<[Address |-> address[1]], NoErr, << >> >>

\* controller.GetAccountExtendedKey(ctx, request): <<response, status code>>.
ControllerGetAccountExtendedKey(request) ==
    LET chainParams == ChainParams(request.ChainParams)
        key         == GetAccountExtendedKey(request.PublicKey, request.ChainCode,
                                             request.AccountIndex, chainParams[1])
    IN  IF chainParams[2] # NoErr THEN <<Nil, "InvalidArgument">>
        ELSE IF key[2] # NoErr THEN <<Nil, "InvalidArgument">>
        ELSE <<[ExtendedKey |-> key[1]], NoErr>>

\* controller.GetKeypair(ctx, request): <<response, status code>>, where
\* random is what the random source gives if it is asked.
ControllerGetKeypair(request, random) ==
    LET chainParams == ChainParams(request.ChainParams)
        keypair     == GetKeypair(request.Seed, chainParams[1], request.Derivation,
                                  random)
    IN  IF chainParams[2] # NoErr THEN <<Nil, "InvalidArgument">>
        ELSE IF keypair[2] # NoErr THEN <<Nil, "Internal">>
        ELSE <<[ExtendedPublicKey |-> keypair[1].ExtendedPublicKey,
                PrivateKey        |-> keypair[1].PrivateKey], NoErr>>

\* btcutil.NewAddressPubKey(serializedPubKey, net) and then PubKey():
\* <<public key, error>>.
NewAddressPubKey(serializedPubKey, net) == ParsePubKey(serializedPubKey)

\* SignatureMetadata(proto, chainParams) of the adapters: <<metadata, cause
\* of the error>>.
SignatureMetadata(proto, chainParams) ==
    LET addrEncoding     == BitcoinAddressEncoding(proto.AddrEncoding)
        serializedPubKey == HexDecodeString(proto.PublicKey)
        addressPubKey    == NewAddressPubKey(serializedPubKey[1], chainParams)
    IN  IF addrEncoding[2] # NoErr THEN <<Nil, addrEncoding[2]>>
        ELSE IF serializedPubKey[2] # NoErr THEN <<Nil, serializedPubKey[2]>>
        ELSE IF addressPubKey[2] # NoErr THEN <<Nil, addressPubKey[2]>>
        ELSE <<[DerSig       |-> proto.DerSignature,
                PubKey       |-> addressPubKey[1],
                AddrEncoding |-> addrEncoding[1]], NoErr>>

\* RawTx(rawTxProto) of the adapters.
RawTx(rawTxProto) ==
    [Hex         |-> rawTxProto.Hex,
     Hash        |-> rawTxProto.Hash,
     WitnessHash |-> rawTxProto.WitnessHash]

\* The loop of controller.SignTransaction over the signatures of the
\* request: <<signatures, error>>, stopping at the first one that fails.
RECURSIVE AdaptSignatures(_, _, _, _)
AdaptSignatures(signatures, chainParams, n, acc) ==
    IF n > Len(signatures) THEN <<acc, NoErr>>
    ELSE LET sigMetadata == SignatureMetadata(signatures[n], chainParams)
         IN  IF sigMetadata[2] # NoErr THEN <<Nil, sigMetadata[2]>>
             ELSE AdaptSignatures(signatures, chainParams, n + 1,
                                  Append(acc, sigMetadata[1]))

\* controller.SignTransaction(ctx, request): <<response, status code>>.
ControllerSignTransaction(request) ==
    LET chainParams == ChainParams(request.ChainParams)
        rawTx       == RawTx(request.RawTx)
        signatures  == AdaptSignatures(request.Signatures, chainParams[1], 1, << >>)
        msgTx_      == DeserializeMsgTx(rawTx)
        signedRawTx == SignTransaction(msgTx_[1], chainParams[1], signatures[1])
    IN  IF chainParams[2] # NoErr THEN <<Nil, "Internal">>
        ELSE IF signatures[2] # NoErr THEN <<Nil, "Internal">>
        ELSE IF msgTx_[2] # NoErr THEN <<Nil, "Internal">>
        ELSE IF signedRawTx[3] # NoErr THEN <<Nil, "Internal">>
        ELSE <<[Hex         |-> signedRawTx[2].Hex,
                Hash        |-> signedRawTx[2].Hash,
                WitnessHash |-> signedRawTx[2].WitnessHash], NoErr>>

\* Utxo(proto) of the adapters: <<*core.Utxo, error>>.
Utxo(proto) ==
    LET value  == ParseInt(proto.Value)
        script == HexDecodeString(proto.ScriptHex)
    IN  IF value[2] # NoErr THEN <<Nil, Wrapf(<<value[2]>>, "invalid utxo value: %s")>>
        ELSE IF script[2] # NoErr
        THEN <<Nil, Wrapf(<<script[2]>>, "invalid utxo script hex: %s")>>
        ELSE <<[Script     |-> script[1],
                Value      |-> value[1],
                Derivation |-> proto.Derivation], NoErr>>

\* The loop of controller.GenerateDerSignatures over the utxos of the
\* request: <<utxos, error>>, stopping at the first one that fails.
RECURSIVE AdaptUtxos(_, _, _)
AdaptUtxos(utxos, n, acc) ==
    IF n > Len(utxos) THEN <<acc, NoErr>>
    ELSE LET utxo == Utxo(utxos[n])
         IN  IF utxo[2] # NoErr THEN <<Nil, utxo[2]>>
             ELSE AdaptUtxos(utxos, n + 1, Append(acc, utxo[1]))

\* controller.GenerateDerSignatures(ctx, request): <<response, status code>>.
\* The error of DeserializeMsgTx is returned as it is, which the server
\* reports with the code Unknown.
ControllerGenerateDerSignatures(request) ==
    LET rawTx         == RawTx(request.RawTx)
        utxos         == AdaptUtxos(request.Utxos, 1, << >>)
        msgTx_        == DeserializeMsgTx(rawTx)
        derSignatures == GenerateDerSignatures(msgTx_[1], utxos[1], request.PrivateKey)
    IN  IF utxos[2] # NoErr THEN <<Nil, "Internal">>
        ELSE IF msgTx_[2] # NoErr THEN <<Nil, "Unknown">>
        ELSE IF derSignatures[2] # NoErr THEN <<Nil, "Internal">>
        ELSE <<[DerSignatures |-> derSignatures[1]], NoErr>>

-----------------------------------------------------------------------------
(* Inputs of the model *)

\* Child indices: two normal ones and two hardened ones.
Indices == {U32(FALSE, 0), U32(FALSE, 1), U32(TRUE, 0), U32(TRUE, 1)}

\* All sequences over S of length at most n.
RECURSIVE SeqsUpTo(_, _)
SeqsUpTo(S, n) ==
    IF n = 0 THEN {<< >>}
    ELSE LET shorter == SeqsUpTo(S, n - 1)
         IN  shorter \cup {Append(p, x) : p \in {q \in shorter : Len(q) = n - 1}, x \in S}

Paths == SeqsUpTo(Indices, MaxPathLen)

\* A serialized extended key of the given kind at the given depth over root
\* material n.
KeyString(net, private, depth, n) ==
    [version   |-> Version(net, IF private THEN "priv" ELSE "pub"),
     depth     |-> depth,
     parentFP  |-> IF depth = 0 THEN Nil ELSE Fingerprint(Atom(n + 100)),
     childNum  |-> IF depth = 0 THEN U32(FALSE, 0) ELSE HardenedKeyStart,
     chainCode |-> Atom(n + 200),
     keyData   |-> [prefix |-> IF private THEN "00" ELSE "point", k |-> Atom(n)]]

\* The extended keys callers supply: master and account-level keys, keys at
\* and next to the deepest level, and a string that does not decode.
ExtendedKeyStrings ==
    { KeyString("main", TRUE, 0, 1),
      KeyString("main", FALSE, 3, 1),
      KeyString("test", FALSE, 3, 2),
      KeyString("main", FALSE, maxUint8 - 1, 3),
      KeyString("main", TRUE, maxUint8 - 1, 3),
      KeyString("main", FALSE, maxUint8, 4),
      BadKeyString }

\* Public keys (curve points) that signature entries carry.
PubKeyA == Atom(11)
PubKeyB == Atom(12)

\* Addresses of the requests: a P2PKH and a P2WPKH address of mainnet, and a
\* string that does not decode.
AddressA == Base58Address(0, Hash160(SerializeCompressed(PubKeyA)))
AddressB == Bech32Address("bc", Hash160(SerializeCompressed(PubKeyB)))

\* The inputs a request may list: a plain outpoint, one with a script filled
\* in and another sequence number, and one whose hash does not parse.
InputChoices ==
    { [OutputHash |-> [hashstr |-> "2f5d"], OutputIndex |-> 0, Script |-> EmptyScript,
       Sequence |-> 0, Value |-> 100000],
      [OutputHash |-> [hashstr |-> "8646"], OutputIndex |-> 1,
       Script |-> Script(<<[raw |-> "76a914"]>>), Sequence |-> 1, Value |-> 110000],
      [OutputHash |-> BadHashStr, OutputIndex |-> 0, Script |-> EmptyScript,
       Sequence |-> 0, Value |-> 100000] }

\* The output lists a request may carry.
OutputLists ==
    { << >>,
      <<[Address |-> AddressA, Value |-> 100000]>>,
      <<[Address |-> AddressB, Value |-> 50000]>>,
      <<[Address |-> BadAddress, Value |-> 100000]>> }

\* The lock times a request may carry: none, and a block height.
LockTimes == {0, 500000}

\* Requests of Service.CreateTransaction.
TxRequests ==
    { [Inputs |-> ins, Outputs |-> outs, LockTime |-> lockTime] :
        ins \in SeqsUpTo(InputChoices, MaxInputs), outs \in OutputLists,
        lockTime \in LockTimes }

\* The utxos a signing request may list: a P2WPKH output and a P2PKH output
\* behind the same derivation path, a P2WPKH output behind a hardened path,
\* and one whose script does not parse.
UtxoChoices ==
    { [Script |-> Script(<<Opcode("OP_0"), Push(Hash160(SerializeCompressed(PubKeyA)))>>),
       Value |-> 100000, Derivation |-> <<U32(FALSE, 0)>>],
      [Script |-> PayToAddrScript(NewAddressPubKeyHash(Hash160(SerializeCompressed(PubKeyB)),
                                                       BitcoinMainNetParams)),
       Value |-> 110000, Derivation |-> <<U32(FALSE, 0)>>],
      [Script |-> Script(<<Opcode("OP_0"), Push(Hash160(SerializeCompressed(PubKeyB)))>>),
       Value |-> 50000, Derivation |-> <<U32(TRUE, 0), U32(FALSE, 1)>>],
      [Script |-> Script(<<[raw |-> "ff"]>>),
       Value |-> 100000, Derivation |-> << >>] }

\* The keys a signing request may carry: an account-level private key, a
\* private key one level above the deepest, a public key, and a string that
\* does not decode.
PrivKeyChoices ==
    { KeyString("main", TRUE, 3, 1),
      KeyString("main", TRUE, maxUint8 - 1, 3),
      KeyString("main", FALSE, 3, 1),
      BadKeyString }

\* The signature entries a request may list, one per address encoding.
SignatureChoices ==
    { [DerSig |-> [der |-> "3044a"], PubKey |-> PubKeyA, AddrEncoding |-> Legacy],
      [DerSig |-> [der |-> "3044b"], PubKey |-> PubKeyB, AddrEncoding |-> WrappedSegwit],
      [DerSig |-> Nil,               PubKey |-> PubKeyA, AddrEncoding |-> NativeSegwit] }

\* Requests of the CreateTransaction RPC: one or two of the inputs above, one
\* recipient, with and without a fee rate and a change address.
PbTxRequests ==
    { [ChainParams   |-> cp,
       Inputs        |-> ins,
       Outputs       |-> <<[Address |-> AddressA, Value |-> v]>>,
       ChangeAddress |-> ca,
       FeeSatPerKb   |-> fee,
       LockTime      |-> 0] :
        cp  \in {PbChainParams(BITCOIN_NETWORK_MAINNET, 0, 0), PbChainParams(0, 0, 0)},
        ins \in SeqsUpTo(InputChoices, MaxInputs) \ {<< >>},
        v   \in {[dec |-> 100000], [dec |-> 209000], [str |-> "1e5"]},
        ca  \in {AddressB, Nil},
        fee \in {0, 1234, 10000} }

-----------------------------------------------------------------------------
(* Package state: the chain parameter tables, chaincfg's registry and the  *)
(* script free list of btcd's wire package; the calls of a running server  *)

\* The chain parameter structs of btcd, and the local variable fromBtcParams
\* of each init function of this repository.
Addresses ==
    {"chaincfg.MainNetParams", "chaincfg.TestNet3Params", "chaincfg.RegressionNetParams",
     "litecoin.fromBtcParams", "bitcoincash.fromBtcParams"}

\* The fields of chaincfg.Params that are slices or pointers.
ReferenceFields == {"DNSSeeds", "GenesisBlock", "GenesisHash", "PowLimit", "Checkpoints"}

\* The slices and pointers of one of btcd's structs: each names an object of
\* btcd of its own.
OwnReferences(net) == [f \in ReferenceFields |-> [object |-> f, of |-> net]]

\* A struct of chain parameters in memory: the fields held by value, and the
\* objects that its slices and pointers refer to.
Params(val, ref) == [val |-> val, ref |-> ref]

\* Package memory when the packages of btcd are loaded and no init function
\* of this repository has run: the variables of pkg/chaincfg, the structs
\* they point to, the registry of chaincfg with btcd's four networks, and the
\* empty script free list of wire.
PkgAtLoad ==
    [phase    |-> "load",
     inits    |-> {},
     ptr      |-> [BitcoinMainNetParams       |-> "chaincfg.MainNetParams",
                   BitcoinTestNet3Params      |-> "chaincfg.TestNet3Params",
                   BitcoinRegressionNetParams |-> "chaincfg.RegressionNetParams",
                   LitecoinMainNetParams      |-> Nil,
                   BitcoinCashMainNetParams   |-> Nil],
     heap     |-> [a \in Addresses |->
                     CASE a = "chaincfg.MainNetParams" ->
                              Params(BitcoinMainNetParams, OwnReferences("mainnet"))
                       [] a = "chaincfg.TestNet3Params" ->
                              Params(BitcoinTestNet3Params, OwnReferences("testnet3"))
                       [] a = "chaincfg.RegressionNetParams" ->
                              Params(BitcoinRegressionNetParams, OwnReferences("regtest"))
                       [] OTHER -> Nil],
     registeredNets       |-> {"d9b4bef9", "0709110b", "dab5bffa", "12141c16"},
     pubKeyHashAddrIDs    |-> {0, 111, 63},
     scriptHashAddrIDs    |-> {5, 196, 123},
     hdPrivToPubKeyIDs    |-> {<<Version("main", "priv"), Version("main", "pub")>>,
                               <<Version("test", "priv"), Version("test", "pub")>>,
                               <<Version("sim", "priv"), Version("sim", "pub")>>},
     bech32SegwitPrefixes |-> {"bc", "tb", "bcrt", "sb"},
     scriptPool           |-> << >>,
     buffers              |-> << >>]

\* chaincfg.Register(params) on the struct at an address: <<package memory,
\* error>>.
Register(p, a) ==
    LET params == p.heap[a].val
    IN  IF params.Net \in p.registeredNets THEN <<p, "ErrDuplicateNet">>
        ELSE <<[p EXCEPT !.registeredNets = @ \cup {params.Net},
                         !.pubKeyHashAddrIDs = @ \cup {params.PubKeyHashAddrID},
                         !.scriptHashAddrIDs = @ \cup {params.ScriptHashAddrID},
                         !.hdPrivToPubKeyIDs = @ \cup {<<params.HDPrivateKeyID,
                                                         params.HDPublicKeyID>>},
                         !.bech32SegwitPrefixes = @ \cup {params.Bech32HRPSegwit}],
               NoErr>>

\* An init function that points its variable at btcd's struct itself.
AddressOfMainNetParams(init) == "chaincfg.MainNetParams"

\* &fromBtcParams: the address of the local variable of an init function.
AddressOfFromBtcParams(init) ==
    IF init = "litecoin" THEN "litecoin.fromBtcParams" ELSE "bitcoincash.fromBtcParams"

\* The assignments of the init function of litecoin.go to the fields of its
\* struct.
LitecoinFields(val) ==
    [val EXCEPT !.Net = "dbb6c0fb",
                !.Bech32HRPSegwit = "ltc",
                !.PubKeyHashAddrID = 48,
                !.ScriptHashAddrID = 50,
                !.HDPrivateKeyID = Version("main", "priv"),
                !.HDPublicKeyID = Version("main", "pub"),
                !.HDCoinType = 2]

\* The assignments of the init function of bitcoincash.go.
BitcoinCashFields(val) ==
    [val EXCEPT !.Net = "e8f3e1e3",
                !.Bech32HRPSegwit = "bitcoincash",
                !.PubKeyHashAddrID = 0,
                !.ScriptHashAddrID = 5,
                !.HDPrivateKeyID = Version("main", "priv"),
                !.HDPublicKeyID = Version("main", "pub"),
                !.HDCoinType = 145]

\* An init function of pkg/chaincfg on package memory: fromBtcParams :=
\* chaincfg.MainNetParams copies the struct, slices and pointers as they are;
\* the variable of the package gets its address; the fields are assigned
\* through the variable; the struct is registered, and an error panics.
RunInit(p, init) ==
    LET a       == AddressOfFromBtcParams(init)
        name    == IF init = "litecoin" THEN "LitecoinMainNetParams"
                   ELSE "BitcoinCashMainNetParams"
        copied  == [p EXCEPT !.heap[a] = p.heap["chaincfg.MainNetParams"],
                             !.ptr[name] = a]
        written == [copied EXCEPT !.heap[a].val =
                        IF init = "litecoin" THEN LitecoinFields(@)
                        ELSE BitcoinCashFields(@)]
        r       == Register(written, a)
    IN  IF r[2] # NoErr THEN [written EXCEPT !.phase = "panicked"]
        ELSE [r[1] EXCEPT !.inits = @ \cup {init}]

\* Package memory when main starts: both init functions have run.
PkgAfterInit ==
    [RunInit(RunInit(PkgAtLoad, "bitcoincash"), "litecoin") EXCEPT !.phase = "serving"]

\* The struct a variable of pkg/chaincfg points to, as a call reads it.
LoadedParams(p, name) == p.heap[p.ptr[name]].val

\* ChainParams(chainParams) of the adapters, reading the variables of
\* pkg/chaincfg in package memory: <<chain parameters, error>>.
LoadedChainParams(p, chainParams) ==
    CASE chainParams.BitcoinNetwork = BITCOIN_NETWORK_MAINNET ->
            <<LoadedParams(p, "BitcoinMainNetParams"), NoErr>>
      [] chainParams.BitcoinNetwork = BITCOIN_NETWORK_TESTNET3 ->
            <<LoadedParams(p, "BitcoinTestNet3Params"), NoErr>>
      [] chainParams.BitcoinNetwork = BITCOIN_NETWORK_REGTEST ->
            <<LoadedParams(p, "BitcoinRegressionNetParams"), NoErr>>
      [] OTHER ->
            IF chainParams.LitecoinNetwork = LITECOIN_NETWORK_MAINNET
            THEN <<LoadedParams(p, "LitecoinMainNetParams"), NoErr>>
            ELSE IF chainParams.BitcoinCashNetwork = BITCOIN_CASH_NETWORK_MAINNET
            THEN <<LoadedParams(p, "BitcoinCashMainNetParams"), NoErr>>
            ELSE <<Nil, "ErrUnknownNetwork">>

\* The scripts of a transaction in the order the decoder reads them: the
\* signature scripts of the inputs, then the scripts of the outputs.
ScriptsOf(tx) ==
    [j \in 1..(Len(tx.TxIn) + Len(tx.TxOut)) |->
        IF j <= Len(tx.TxIn) THEN tx.TxIn[j].SignatureScript
        ELSE tx.TxOut[j - Len(tx.TxIn)].PkScript]

\* The size in bytes of a script made of opcodes and pushes of 20-byte hashes.
RECURSIVE ScriptSize(_)
ScriptSize(items) ==
    IF Len(items) = 0 THEN 0
    ELSE (IF "push" \in DOMAIN items[1] THEN 21 ELSE 1) + ScriptSize(Tail(items))

\* A slice of a buffer of the free list: the buffer, and the script that was
\* read into it when the slice was made.
Slice(buf, read) == [buf |-> buf, read |-> read]

\* The bytes of a slice now: the script read at first while nothing else has
\* been written to the buffer; the script written since when it has the same
\* size; otherwise the first bytes of what the buffer holds.
SliceBytes(buffers, slice) ==
    LET now == buffers[slice.buf]
    IN  IF now = slice.read \/ ScriptSize(slice.read.script) = 0 THEN slice.read
        ELSE IF ScriptSize(now.script) = ScriptSize(slice.read.script) THEN now
        ELSE [first |-> ScriptSize(slice.read.script), of |-> now, over |-> slice.read]

\* A transaction as a reader of its slices sees it.
Resolve(tx, buffers) ==
    LET bytes(s) == IF "buf" \in DOMAIN s THEN SliceBytes(buffers, s) ELSE s
    IN  [tx EXCEPT !.TxIn  = [i \in 1..Len(tx.TxIn) |->
                                [tx.TxIn[i] EXCEPT !.SignatureScript = bytes(@)]],
                   !.TxOut = [j \in 1..Len(tx.TxOut) |->
                                [tx.TxOut[j] EXCEPT !.PkScript = bytes(@)]]]

\* MsgTx.Deserialize(r) with the free list: [msgTx, err, scriptPool,
\* buffers].  Each script is read into a buffer borrowed from the free list,
\* or a new one when the list is empty.  When all bytes have been read the
\* scripts are copied to memory of the transaction and the buffers go back
\* to the list.  When the bytes end within the lock time the buffers go back
\* to the list as well, and the scripts of the transaction stay slices of
\* them.
DeserializeBorrowing(p, msg, b) ==
    IF "truncated" \in DOMAIN b /\ b.at = "Version"
    THEN [msgTx |-> msg, err |-> "EOF", scriptPool |-> p.scriptPool, buffers |-> p.buffers]
    ELSE LET whole    == "truncated" \notin DOMAIN b
             tx       == BtcDecode(IF whole THEN b ELSE b.truncated)
             scripts  == ScriptsOf(tx)
             k        == Len(scripts)
             free     == Len(p.scriptPool)
             made     == IF k > free THEN k - free ELSE 0
             borrowed == [j \in 1..k |-> IF j <= free THEN p.scriptPool[j]
                                         ELSE Len(p.buffers) + (j - free)]
             filled   == [i \in 1..(Len(p.buffers) + made) |->
                             IF \E j \in 1..k : borrowed[j] = i
                             THEN scripts[CHOOSE j \in 1..k : borrowed[j] = i]
                             ELSE p.buffers[i]]
             sliced   == [tx EXCEPT
                             !.TxIn  = [i \in 1..Len(tx.TxIn) |->
                                          [tx.TxIn[i] EXCEPT !.SignatureScript =
                                              Slice(borrowed[i], @)]],
                             !.TxOut = [j \in 1..Len(tx.TxOut) |->
                                          [tx.TxOut[j] EXCEPT !.PkScript =
                                              Slice(borrowed[Len(tx.TxIn) + j], @)]],
                             !.LockTime = 0]
         IN  [msgTx      |-> IF whole THEN tx ELSE sliced,
              err        |-> IF whole THEN NoErr ELSE "unexpected EOF",
              scriptPool |-> SubSeq(p.scriptPool, k + 1, free) \o borrowed,
              buffers    |-> filled]

\* Service.DeserializeMsgTx(rawTx) in a running server: [msgTx, err,
\* scriptPool, buffers].
DeserializeMsgTxBorrowing(p, rawTx) ==
    LET hexBytes == HexDecodeString(rawTx.Hex)
    IN  IF hexBytes[2] # NoErr
        THEN [msgTx |-> Nil, err |-> hexBytes[2],
              scriptPool |-> p.scriptPool, buffers |-> p.buffers]
        ELSE [DeserializeBorrowing(p, NewMsgTx(TxVersion), hexBytes[1]) EXCEPT !.err = NoErr]

\* The goroutines that serve calls.
Threads == 1..MaxThreads

\* A goroutine with no call.
Idle == [pc |-> "idle", req |-> Nil, chainParams |-> Nil, signatures |-> Nil,
         msgTx |-> Nil, resp |-> Nil]

\* A goroutine whose call has returned.
Done(thread, value, err) ==
    [thread EXCEPT !.pc = "done", !.resp = [value |-> value, err |-> err]]

-----------------------------------------------------------------------------
(* The calls *)

Init ==
    /\ op = "init"
    /\ req = Nil
    /\ resp = Nil
    /\ msgTx = Nil
    /\ seen = Nil
    /\ pkg = PkgAfterInit
    /\ threads = [t \in Threads |-> Idle]

\* A call of Service.DeriveExtendedKey.
DeriveExtendedKeyCall ==
    \E k \in ExtendedKeyStrings, p \in Paths :
        LET r == DeriveExtendedKey(k, p)
        IN  /\ op' = "DeriveExtendedKey"
            /\ req' = [extendedKey |-> k, derivation |-> p]
            /\ resp' = [value |-> r[1], err |-> r[2]]
            /\ UNCHANGED <<msgTx, seen, pkg, threads>>

NextHD == DeriveExtendedKeyCall

SpecHD == Init /\ [][NextHD]_vars

\* A behaviour is one session of a caller: it has a transaction built (or
\* makes an empty one), decodes it, and has the decoded transaction signed.

\* A call of Service.CreateTransaction, the first call of a session.
CreateTransactionCall ==
    /\ op = "init"
    /\ \E tx \in TxRequests :
        LET r == CreateTransaction(tx, BitcoinMainNetParams)
        IN  /\ op' = "CreateTransaction"
            /\ req' = [tx |-> tx]
            /\ resp' = [value |-> r[1], err |-> r[2]]
            /\ msgTx' = Nil
            /\ UNCHANGED <<seen, pkg, threads>>

\* A call of the CreateTransaction RPC, the first call of a session.
ControllerCreateTransactionCall ==
    /\ op = "init"
    /\ \E txRequest \in PbTxRequests :
        LET r == ControllerCreateTransaction(txRequest)
        IN  /\ op' = "controller.CreateTransaction"
            /\ req' = [txRequest |-> txRequest]
            /\ resp' = [value |-> r[1], err |-> r[2]]
            /\ msgTx' = Nil
            /\ UNCHANGED <<seen, pkg, threads>>

\* The caller makes an empty transaction, wire.NewMsgTx(1), as the tests do.
NewMsgTxCall ==
    /\ op = "init"
    /\ op' = "NewMsgTx"
    /\ req' = Nil
    /\ resp' = [value |-> NewMsgTx(TxVersion), err |-> NoErr]
    /\ msgTx' = NewMsgTx(TxVersion)
    /\ UNCHANGED <<seen, pkg, threads>>

\* A call of Service.DeserializeMsgTx on the RawTx the last call returned,
\* for a transaction with at least one input.
DeserializeMsgTxCall ==
    /\ op \in {"CreateTransaction", "SignTransaction"}
    /\ resp.err = NoErr
    /\ Len(resp.value.Hex.hex.legacy.TxIn) > 0
    /\ op' = "DeserializeMsgTx"
    /\ req' = [rawTx |-> resp.value]
    /\ resp' = [value |-> DeserializeMsgTx(resp.value)[1],
                 err   |-> DeserializeMsgTx(resp.value)[2]]
    /\ msgTx' = DeserializeMsgTx(resp.value)[1]
    /\ UNCHANGED <<seen, pkg, threads>>

\* A call of Service.GenerateDerSignatures on the transaction the caller has
\* just decoded or made.
GenerateDerSignaturesCall ==
    /\ op \in {"DeserializeMsgTx", "NewMsgTx"}
    /\ \E utxos \in SeqsUpTo(UtxoChoices, MaxInputs), privKey \in PrivKeyChoices :
        LET r == GenerateDerSignatures(msgTx, utxos, privKey)
        IN  /\ op' = "GenerateDerSignatures"
            /\ req' = [msgTx |-> msgTx, utxos |-> utxos, privKey |-> privKey]
            /\ resp' = [value |-> r[1], err |-> r[2]]
            /\ UNCHANGED <<msgTx, seen, pkg, threads>>

\* A call of Service.SignTransaction on the transaction the caller has just
\* decoded or made, which it signs in place.
SignTransactionCall ==
    /\ op \in {"DeserializeMsgTx", "NewMsgTx"}
    /\ \E signatures \in SeqsUpTo(SignatureChoices, MaxInputs) :
        LET r == SignTransaction(msgTx, BitcoinMainNetParams, signatures)
        IN  /\ op' = "SignTransaction"
            /\ req' = [msgTx |-> msgTx, signatures |-> signatures]
            /\ resp' = [value |-> r[2], err |-> r[3]]
            /\ msgTx' = r[1]
            /\ UNCHANGED <<seen, pkg, threads>>

NextTx ==
    \/ CreateTransactionCall
    \/ ControllerCreateTransactionCall
    \/ NewMsgTxCall
    \/ DeserializeMsgTxCall
    \/ GenerateDerSignaturesCall
    \/ SignTransactionCall

SpecTx == Init /\ [][NextTx]_vars

-----------------------------------------------------------------------------
(* The address and key calls, at the service and at the RPC *)

\* A behaviour is one session of a caller: one call, and for an address just
\* encoded or an account key just built, the call that uses it.

\* The five chain parameter tables.
AllChainParams ==
    { BitcoinMainNetParams, BitcoinTestNet3Params, BitcoinRegressionNetParams,
      LitecoinMainNetParams, BitcoinCashMainNetParams }

\* The chain parameters of a request: the network field is a oneof, so at
\* most one family is set; the known networks, UNSPECIFIED, and values that
\* no enumeration has (99999 as in the tests).
PbNetworks ==
    { PbChainParams(b, 0, 0) : b \in {0, BITCOIN_NETWORK_MAINNET, BITCOIN_NETWORK_TESTNET3,
                                       BITCOIN_NETWORK_REGTEST, 99999} }
    \cup { PbChainParams(0, l, 0) : l \in {LITECOIN_NETWORK_MAINNET, 7} }
    \cup { PbChainParams(0, 0, c) : c \in {BITCOIN_CASH_NETWORK_MAINNET, 7} }

\* Serialized public keys: the three forms of one point, another point, and
\* strings that are no key (one byte, empty, X not below P, off the curve).
PubKeyStrings ==
    { [compressed |-> PubKeyA], [uncompressed |-> PubKeyA], [hybrid |-> PubKeyA],
      [compressed |-> PubKeyB],
      [bytes |-> "04"], [bytes |-> ""], [xNotBelowP |-> "uncompressed"],
      [offCurve |-> "compressed"], [offCurve |-> "uncompressed"] }

\* Address encodings a Go caller may pass, and those a request may carry.
Encodings == {-1, Legacy, WrappedSegwit, NativeSegwit, 3}
PbEncodings ==
    { ADDRESS_ENCODING_UNSPECIFIED, ADDRESS_ENCODING_P2PKH,
      ADDRESS_ENCODING_P2SH_P2WPKH, ADDRESS_ENCODING_P2WPKH, 4 }

\* Address strings of the requests: well-formed ones of mainnet and testnet,
\* in lower and in upper case, and malformed ones.
AddressStrings ==
    { AddressA, AddressB, ToUpper(AddressB),
      Base58Address(111, Hash160(SerializeCompressed(PubKeyA))),
      Base58Address(5, Hash160(SerializeCompressed(PubKeyB))),
      Bech32Address("tb", Hash160(SerializeCompressed(PubKeyA))),
      Bech32Address("xx", Hash160(SerializeCompressed(PubKeyA))),
      BadChecksum(AddressA), BadChecksum(AddressB),
      MixedCase(Bech32Address("tb", Hash160(SerializeCompressed(PubKeyA)))),
      BadAddress }

\* A call of ChainParams of the adapters.
ChainParamsCall ==
    /\ op = "init"
    /\ \E chainParams \in PbNetworks :
        LET r == ChainParams(chainParams)
        IN  /\ op' = "ChainParams"
            /\ req' = [chainParams |-> chainParams]
            /\ resp' = [value |-> r[1], err |-> r[2], named |-> r[3]]
            /\ UNCHANGED <<msgTx, seen, pkg, threads>>

\* A call of Service.EncodeAddress.
EncodeAddressCall ==
    /\ op = "init"
    /\ \E publicKey \in PubKeyStrings, encoding \in Encodings, chainParams \in AllChainParams :
        LET r == EncodeAddress(publicKey, encoding, chainParams)
        IN  /\ op' = "EncodeAddress"
            /\ req' = [publicKey |-> publicKey, encoding |-> encoding,
                       chainParams |-> chainParams]
            /\ resp' = [value |-> r[1], err |-> r[2], text |-> r[3]]
            /\ UNCHANGED <<msgTx, seen, pkg, threads>>

\* A call of Service.ValidateAddress on the address that EncodeAddress has
\* just returned, with the same chain parameters.
ValidateEncodedAddressCall ==
    /\ op = "EncodeAddress"
    /\ resp.err = NoErr
    /\ LET r == ValidateAddress(resp.value, req.chainParams)
       IN  /\ op' = "ValidateAddress"
           /\ req' = [address |-> resp.value, chainParams |-> req.chainParams,
                      encoded |-> req]
           /\ resp' = [value |-> r[1], err |-> r[2], text |-> r[3]]
           /\ UNCHANGED <<msgTx, seen, pkg, threads>>

\* A call of the ValidateAddress RPC.
ControllerValidateAddressCall ==
    /\ op = "init"
    /\ \E address \in AddressStrings, chainParams \in PbNetworks :
        LET r == ControllerValidateAddress([Address |-> address, ChainParams |-> chainParams])
        IN  /\ op' = "controller.ValidateAddress"
            /\ req' = [Address |-> address, ChainParams |-> chainParams]
            /\ resp' = [value |-> r[1], err |-> r[2], msg |-> r[3]]
            /\ UNCHANGED <<msgTx, seen, pkg, threads>>

\* A call of the EncodeAddress RPC.
ControllerEncodeAddressCall ==
    /\ op = "init"
    /\ \E publicKey \in PubKeyStrings, encoding \in PbEncodings, chainParams \in PbNetworks :
        LET request == [PublicKey |-> publicKey, Encoding |-> encoding,
                        ChainParams |-> chainParams]
            r       == ControllerEncodeAddress(request)
        IN  /\ op' = "controller.EncodeAddress"
            /\ req' = request
            /\ resp' = [value |-> r[1], err |-> r[2], msg |-> r[3]]
            /\ UNCHANGED <<msgTx, seen, pkg, threads>>

\* Chain codes and account indices of the account key requests.
ChainCodes == {Atom(201), Atom(202)}
AccountIndices == {U32(FALSE, 0), U32(FALSE, 1), U32(TRUE, 0)}

\* A call of Service.GetAccountExtendedKey.
GetAccountExtendedKeyCall ==
    /\ op = "init"
    /\ \E publicKey \in PubKeyStrings, chainCode \in ChainCodes,
       accountIndex \in AccountIndices, chainParams \in AllChainParams :
        LET r == GetAccountExtendedKey(publicKey, chainCode, accountIndex, chainParams)
        IN  /\ op' = "GetAccountExtendedKey"
            /\ req' = [publicKey |-> publicKey, chainCode |-> chainCode,
                       accountIndex |-> accountIndex, chainParams |-> chainParams]
            /\ resp' = [value |-> r[1], err |-> r[2]]
            /\ UNCHANGED <<msgTx, seen, pkg, threads>>

\* A call of Service.DeriveExtendedKey on the key that GetAccountExtendedKey
\* has just returned.
DeriveFromAccountKeyCall ==
    /\ op = "GetAccountExtendedKey"
    /\ resp.err = NoErr
    /\ \E p \in Paths :
        LET r == DeriveExtendedKey(resp.value, p)
        IN  /\ op' = "DeriveExtendedKey"
            /\ req' = [extendedKey |-> resp.value, derivation |-> p, account |-> req]
            /\ resp' = [value |-> r[1], err |-> r[2]]
            /\ UNCHANGED <<msgTx, seen, pkg, threads>>

\* A call of the GetAccountExtendedKey RPC.
ControllerGetAccountExtendedKeyCall ==
    /\ op = "init"
    /\ \E publicKey \in PubKeyStrings, chainParams \in PbNetworks :
        LET request == [PublicKey |-> publicKey, ChainCode |-> Atom(201),
                        AccountIndex |-> U32(FALSE, 0), ChainParams |-> chainParams]
            r       == ControllerGetAccountExtendedKey(request)
        IN  /\ op' = "controller.GetAccountExtendedKey"
            /\ req' = request
            /\ resp' = [value |-> r[1], err |-> r[2]]
            /\ UNCHANGED <<msgTx, seen, pkg, threads>>

\* A call of the GetKeypair RPC, with a seed of the caller or none.
ControllerGetKeypairCall ==
    /\ op = "init"
    /\ \E seed \in {Seed("", 0), Seed("000102030405060708090a0b0c0d0e0f", 32), Seed("short", 5)},
       derivation \in {<< >>, <<U32(TRUE, 0)>>}, chainParams \in PbNetworks :
        LET request == [Seed |-> seed, Derivation |-> derivation,
                        ChainParams |-> chainParams]
            r       == ControllerGetKeypair(request, "generated-1")
        IN  /\ op' = "controller.GetKeypair"
            /\ req' = request
            /\ resp' = [value |-> r[1], err |-> r[2]]
            /\ UNCHANGED <<msgTx, seen, pkg, threads>>

\* Seeds and derivation paths of the GetKeypair calls: no seed, the seed of
\* the tests, and one that is too short; the master node, a hardened child
\* (44') and a normal grandchild.
KeypairSeeds == {Seed("", 0), Seed("I am the Lama from Lama land", 28), Seed("short", 5)}
KeypairDerivations == {<< >>, <<U32(TRUE, 44)>>, <<U32(TRUE, 0), U32(FALSE, 1)>>}

\* A call of Service.GetKeypair; random is what the random source gives if
\* the call asks it, and is kept beside the arguments.
GetKeypairCall ==
    /\ op = "init"
    /\ \E seed \in KeypairSeeds, derivation \in KeypairDerivations,
          chainParams \in {BitcoinMainNetParams, BitcoinTestNet3Params},
          random \in {"generated-1", "generated-2"} :
        LET r == GetKeypair(seed, chainParams, derivation, random)
        IN  /\ op' = "GetKeypair"
            /\ req' = [seed |-> seed, chainParams |-> chainParams,
                       derivation |-> derivation, random |-> random]
            /\ resp' = [value |-> r[1], err |-> r[2]]
            /\ UNCHANGED <<msgTx, seen, pkg, threads>>

\* A call of Service.DeriveExtendedKey on one of the two keys that GetKeypair
\* has just returned.
DeriveFromKeypairCall ==
    /\ op = "GetKeypair"
    /\ resp.err = NoErr
    /\ \E p \in Paths, which \in {"PrivateKey", "ExtendedPublicKey"} :
        LET r == DeriveExtendedKey(resp.value[which], p)
        IN  /\ op' = "DeriveExtendedKey"
            /\ req' = [extendedKey |-> resp.value[which], derivation |-> p,
                       keypair |-> resp.value, of |-> req]
            /\ resp' = [value |-> r[1], err |-> r[2]]
            /\ UNCHANGED <<msgTx, seen, pkg, threads>>

\* The signature entries a SignTransaction request may list: a key in hex
\* with each encoding value, a key that is no hex, and hex that is no key.
PbSignatureChoices ==
    { [DerSignature |-> [der |-> "3044a"], PublicKey |-> [hex |-> [compressed |-> PubKeyA]],
       AddrEncoding |-> e] : e \in PbEncodings }
    \cup { [DerSignature |-> [der |-> "3044b"], PublicKey |-> [text |-> "zz"],
            AddrEncoding |-> ADDRESS_ENCODING_P2WPKH],
           [DerSignature |-> [der |-> "3044b"], PublicKey |-> [hex |-> [bytes |-> "04"]],
            AddrEncoding |-> ADDRESS_ENCODING_P2SH_P2WPKH] }

\* The unsigned transactions a SignTransaction request may carry: those that
\* Service.CreateTransaction returns for one input and one output.
RawTxChoices ==
    { CreateTransaction(tx, BitcoinMainNetParams)[1] :
        tx \in {t \in TxRequests : /\ Len(t.Inputs) = 1
                                   /\ Len(t.Outputs) = 1
                                   /\ CreateTransaction(t, BitcoinMainNetParams)[2] = NoErr} }

\* A call of SignatureMetadata of the adapters.
SignatureMetadataCall ==
    /\ op = "init"
    /\ \E proto \in PbSignatureChoices, chainParams \in AllChainParams :
        LET r == SignatureMetadata(proto, chainParams)
        IN  /\ op' = "SignatureMetadata"
            /\ req' = [proto |-> proto, chainParams |-> chainParams]
            /\ resp' = [value |-> r[1], err |-> r[2]]
            /\ UNCHANGED <<msgTx, seen, pkg, threads>>

\* Raw transactions that are no complete serialization: a Hex that is no
\* hexadecimal string, the empty Hex, and the Hex of a transaction of
\* RawTxChoices without its last bytes, those of the lock time.
MalformedRawTxs ==
    LET whole == CreateTransaction([Inputs   |-> <<[OutputHash |-> [hashstr |-> "2f5d"],
                                                    OutputIndex |-> 0, Script |-> EmptyScript,
                                                    Sequence |-> 0, Value |-> 100000]>>,
                                    Outputs  |-> <<[Address |-> AddressA, Value |-> 100000]>>,
                                    LockTime |-> 500000], BitcoinMainNetParams)[1]
    IN  { [whole EXCEPT !.Hex = [text |-> "zz"]],
          [whole EXCEPT !.Hex = [hex |-> Truncate(whole.Hex.hex, "Version")]],
          [whole EXCEPT !.Hex = [hex |-> Truncate(whole.Hex.hex, "LockTime")]] }

\* The utxos a GenerateDerSignatures request may list: a P2WPKH output, a
\* P2PKH output, and one whose value is no number.
PbUtxoChoices ==
    { [ScriptHex  |-> [hex |-> Script(<<Opcode("OP_0"),
                                        Push(Hash160(SerializeCompressed(PubKeyA)))>>)],
       Value      |-> [dec |-> 100000],
       Derivation |-> <<U32(FALSE, 0)>>],
      [ScriptHex  |-> [hex |-> PayToAddrScript(NewAddressPubKeyHash(
                                   Hash160(SerializeCompressed(PubKeyB)), BitcoinMainNetParams))],
       Value      |-> [dec |-> 110000],
       Derivation |-> <<U32(FALSE, 0)>>],
      [ScriptHex  |-> [hex |-> EmptyScript],
       Value      |-> [text |-> "1e5"],
       Derivation |-> << >>] }

\* A call of the GenerateDerSignatures RPC.
ControllerGenerateDerSignaturesCall ==
    /\ op = "init"
    /\ \E rawTx \in RawTxChoices \cup MalformedRawTxs,
          utxos \in SeqsUpTo(PbUtxoChoices, MaxInputs),
          privateKey \in PrivKeyChoices :
        LET request == [RawTx |-> rawTx, Utxos |-> utxos, PrivateKey |-> privateKey]
            r       == ControllerGenerateDerSignatures(request)
        IN  /\ op' = "controller.GenerateDerSignatures"
            /\ req' = request
            /\ resp' = [value |-> r[1], err |-> r[2]]
            /\ UNCHANGED <<msgTx, seen, pkg, threads>>

\* A call of the SignTransaction RPC.
ControllerSignTransactionCall ==
    /\ op = "init"
    /\ \E rawTx \in RawTxChoices \cup MalformedRawTxs, signatures \in SeqsUpTo(PbSignatureChoices, MaxInputs),
       chainParams \in PbNetworks :
        LET request == [RawTx |-> rawTx, Signatures |-> signatures,
                        ChainParams |-> chainParams]
            r       == ControllerSignTransaction(request)
        IN  /\ op' = "controller.SignTransaction"
            /\ req' = request
            /\ resp' = [value |-> r[1], err |-> r[2]]
            /\ UNCHANGED <<msgTx, seen, pkg, threads>>

NextRpc ==
    \/ ChainParamsCall
    \/ EncodeAddressCall
    \/ ValidateEncodedAddressCall
    \/ ControllerValidateAddressCall
    \/ ControllerEncodeAddressCall
    \/ GetAccountExtendedKeyCall
    \/ DeriveFromAccountKeyCall
    \/ ControllerGetAccountExtendedKeyCall
    \/ ControllerGetKeypairCall
    \/ GetKeypairCall
    \/ DeriveFromKeypairCall
    \/ SignatureMetadataCall
    \/ ControllerGenerateDerSignaturesCall
    \/ ControllerSignTransactionCall
    \/ ControllerCreateTransactionCall

SpecRpc == Init /\ [][NextRpc]_vars

-----------------------------------------------------------------------------
(* Transactions: fee accounting, signatures, finishing (C1 to C7) *)

\* The request of the last CreateTransaction RPC, as the Tx adapter gives it
\* to the service.
AdaptedTx == Tx(req.txRequest)[1]

SuppliedKey == NewKeyFromString(req.privKey)[1]

\* C2: in GenerateDerSignatures the key that signs input i is the key derived
\* along utxos[i].Derivation from the supplied extended key, whatever the
\* derivation paths of the other inputs and the position of i; the call
\* fails on a derivation only when one of these derivations fails.
C2_KeyOfOwnDerivation ==
    ( /\ op = "GenerateDerSignatures"
      /\ Len(req.msgTx.TxIn) = Len(req.utxos)
      /\ NewKeyFromString(req.privKey)[2] = NoErr
      /\ SuppliedKey.isPrivate
      /\ \A i \in 1..Len(req.utxos) :
            /\ DerivePath(SuppliedKey, req.utxos[i].Derivation, 1)[2] = NoErr
            /\ IsParsable(req.utxos[i].Script) )
    => /\ resp.err = NoErr
       /\ \A i \in 1..Len(req.utxos) :
            resp.value[i].signer = DerivePath(SuppliedKey, req.utxos[i].Derivation, 1)[1].key

\* The derivation paths of the first n utxos, one after the other.
RECURSIVE DerivationsUpTo(_, _)
DerivationsUpTo(utxos, n) ==
    IF n = 0 THEN << >> ELSE DerivationsUpTo(utxos, n - 1) \o utxos[n].Derivation

\* C3: GenerateDerSignatures returns an error and no signatures when the
\* number of utxos differs from the number of inputs; when it succeeds there
\* is exactly one signature per input, and the i-th is the signature over the
\* digest of input i with the script and value of utxos[i], made with the key
\* the loop holds once it has derived utxos[i].Derivation.
C3_OneSignaturePerInput ==
    op = "GenerateDerSignatures"
    => /\ Len(req.utxos) # Len(req.msgTx.TxIn) => resp.err # NoErr /\ resp.value = Nil
       /\ resp.err = NoErr =>
            /\ Len(resp.value) = Len(req.msgTx.TxIn)
            /\ \A i \in 1..Len(req.msgTx.TxIn) :
                 /\ resp.value[i].digest =
                        calcWitnessSignatureHash(req.msgTx, i, req.utxos[i].Value,
                                                 req.utxos[i].Script, "SigHashAll")
                 /\ resp.value[i].hashType = "SigHashAll"
                 /\ resp.value[i].signer =
                        DerivePath(SuppliedKey, DerivationsUpTo(req.utxos, i), 1)[1].key

\* Two different inputs signed in one call, each with its own utxo.
C3_Witness ==
    /\ op = "GenerateDerSignatures"
    /\ resp.err = NoErr
    /\ Len(resp.value) = 2
    /\ req.utxos[1] # req.utxos[2]
    /\ resp.value[1] # resp.value[2]

\* C4: SignTransaction returns an error and no raw transaction when the
\* number of signature entries differs from the number of inputs, and the
\* transaction of the caller is then as it was before the call.
C4_MismatchLeavesTxUntouched ==
    (op = "SignTransaction" /\ Len(req.signatures) # Len(req.msgTx.TxIn))
    => /\ resp.err # NoErr
       /\ resp.value = Nil
       /\ msgTx = req.msgTx

\* A transaction with two inputs and a single signature entry.
C4_Witness ==
    /\ op = "SignTransaction"
    /\ Len(req.msgTx.TxIn) = 2
    /\ Len(req.signatures) = 1
    /\ resp.err # NoErr

\* C5: after a successful SignTransaction input i carries the witness stack
\* <<signatures[i].DerSig, compressed signatures[i].PubKey>>, two elements in
\* this order, whatever the address encoding of the entry; the returned raw
\* transaction holds the same stacks.
C5_WitnessOfEveryInput ==
    (op = "SignTransaction" /\ resp.err = NoErr)
    => /\ Len(msgTx.TxIn) = Len(req.signatures)
       /\ \A i \in 1..Len(msgTx.TxIn) :
            /\ Len(msgTx.TxIn[i].Witness) = 2
            /\ msgTx.TxIn[i].Witness[1] = req.signatures[i].DerSig
            /\ msgTx.TxIn[i].Witness[2] = [compressed |-> req.signatures[i].PubKey]
            /\ DeserializeMsgTx(resp.value)[1].TxIn[i].Witness = msgTx.TxIn[i].Witness

\* Two inputs signed with entries of different keys and encodings, the first
\* of them a P2PKH entry.
C5_Witness ==
    /\ op = "SignTransaction"
    /\ resp.err = NoErr
    /\ Len(req.signatures) = 2
    /\ req.signatures[1].AddrEncoding = Legacy
    /\ req.signatures[2].AddrEncoding = WrappedSegwit
    /\ req.signatures[1].PubKey # req.signatures[2].PubKey

\* C6: after a successful SignTransaction input i has a non-empty signature
\* script exactly when signatures[i].AddrEncoding is P2SH-P2WPKH, and it is
\* then the single push of the redeem script OP_0 <HASH160(compressed public
\* key)>; for the other encodings it is empty, also when the input had a
\* script before the call.
C6_SigScriptOnlyForWrappedSegwit ==
    (op = "SignTransaction" /\ resp.err = NoErr)
    => \A i \in 1..Len(msgTx.TxIn) :
         LET pubKeyHash == [hash160 |-> [compressed |-> req.signatures[i].PubKey]]
         IN  /\ msgTx.TxIn[i].SignatureScript # EmptyScript
                   <=> req.signatures[i].AddrEncoding = WrappedSegwit
             /\ req.signatures[i].AddrEncoding = WrappedSegwit
                   => msgTx.TxIn[i].SignatureScript =
                        [script |-> <<[push |-> [script |-> <<[opc |-> "OP_0"],
                                                              [push |-> pubKeyHash]>>]]>>]

\* An input that had a script before the call is signed with a P2WPKH entry,
\* and another with a P2SH-P2WPKH entry.
C6_Witness ==
    /\ op = "SignTransaction"
    /\ resp.err = NoErr
    /\ \E i \in 1..Len(msgTx.TxIn) :
         /\ req.msgTx.TxIn[i].SignatureScript # EmptyScript
         /\ req.signatures[i].AddrEncoding = NativeSegwit
    /\ \E i \in 1..Len(msgTx.TxIn) : req.signatures[i].AddrEncoding = WrappedSegwit

\* The transaction behind the RawTx that the last call returned.
ReturnedTx ==
    IF op = "SignTransaction" THEN msgTx
    ELSE BuildMsgTx(req.tx, BitcoinMainNetParams)[1]

\* C7: in every RawTx returned by CreateTransaction or SignTransaction,
\* WitnessHash equals Hash exactly when no input of the transaction carries
\* witness data; CreateTransaction always returns them equal, and
\* SignTransaction returns them different for a transaction with an input.
C7_WitnessHashEqualsHashIffNoWitness ==
    /\ (op \in {"CreateTransaction", "SignTransaction"} /\ resp.err = NoErr)
       => /\ resp.value.WitnessHash = resp.value.Hash
               <=> \A i \in 1..Len(ReturnedTx.TxIn) : ReturnedTx.TxIn[i].Witness = << >>
          /\ op = "CreateTransaction" => resp.value.WitnessHash = resp.value.Hash
          /\ (op = "SignTransaction" /\ Len(msgTx.TxIn) > 0)
               => resp.value.WitnessHash # resp.value.Hash
    /\ (op = "controller.CreateTransaction" /\ resp.err = NoErr)
       => resp.value.WitnessHash = resp.value.Hash

\* SignTransaction has returned a transaction with an input, and with an
\* empty DER signature in its witness.
C7_Witness ==
    /\ op = "SignTransaction"
    /\ resp.err = NoErr
    /\ Len(msgTx.TxIn) > 0
    /\ \E i \in 1..Len(msgTx.TxIn) : req.signatures[i].DerSig = Nil
    /\ resp.value.WitnessHash # resp.value.Hash

-----------------------------------------------------------------------------
(* Key derivation (C8, C10) *)

\* The key that the last DeriveExtendedKey call was given, decoded.
GivenKey == NewKeyFromString(req.extendedKey)[1]

\* The last DeriveExtendedKey call was given a public-only key and a path
\* with an index >= 2^31 at position n, and the indices before n derive.
HardenedAt(n) ==
    /\ op = "DeriveExtendedKey"
    /\ NewKeyFromString(req.extendedKey)[2] = NoErr
    /\ ~GivenKey.isPrivate
    /\ n \in 1..Len(req.derivation)
    /\ IsHardened(req.derivation[n])
    /\ ChildPath(GivenKey, SubSeq(req.derivation, 1, n - 1), 1)[2] = NoErr

\* C8 as stated: DeriveExtendedKey from a public-only key fails with
\* ErrDeriveHardFromPublic whenever the path has an index >= 2^31 at some
\* position and the indices before it derive; the material returned is empty.
C8_HardenedFromPublic ==
    \A n \in 1..MaxPathLen + 1 :
        HardenedAt(n) => /\ resp.err = "ErrDeriveHardFromPublic"
                         /\ resp.value = EmptyMaterial

\* C8 with the depth taken into account: the failure is
\* ErrDeriveHardFromPublic when the key reached at that position has a depth
\* below 255, and ErrDeriveBeyondMaxDepth when its depth is 255; the material
\* returned is empty in both cases.
C8_HardenedFromPublicBelowMaxDepth ==
    \A n \in 1..MaxPathLen + 1 :
        HardenedAt(n) =>
            /\ GivenKey.depth + (n - 1) < 255 => resp.err = "ErrDeriveHardFromPublic"
            /\ GivenKey.depth + (n - 1) = 255 => resp.err = "ErrDeriveBeyondMaxDepth"
            /\ resp.value = EmptyMaterial

\* A public key of depth 254 is given a normal index and then a hardened one.
C8_Witness ==
    /\ HardenedAt(2)
    /\ GivenKey.depth = 254
    /\ resp.err = "ErrDeriveBeyondMaxDepth"

\* The result of DeriveExtendedKey as the calls record it.
Result(extendedKey, derivation) ==
    [value |-> DeriveExtendedKey(extendedKey, derivation)[1],
     err   |-> DeriveExtendedKey(extendedKey, derivation)[2]]

\* C10: DeriveExtendedKey is a left-to-right fold of single-child derivation:
\* with the empty path it returns the given key's own string, public key and
\* chain code; deriving p \o q from a key gives what deriving q from the
\* extended key returned for p gives; and a failure within p is the result,
\* whatever follows.
C10_LeftToRightFold ==
    (op = "DeriveExtendedKey" /\ NewKeyFromString(req.extendedKey)[2] = NoErr)
    => /\ req.derivation = << >> =>
            /\ resp.err = NoErr
            /\ resp.value.ExtendedKey = req.extendedKey
            /\ resp.value.PublicKey =
                  [compressed |-> IF req.extendedKey.keyData.prefix = "00"
                                  THEN [pub |-> req.extendedKey.keyData.k]
                                  ELSE req.extendedKey.keyData.k]
            /\ resp.value.ChainCode = req.extendedKey.chainCode
       /\ \A n \in 0..Len(req.derivation) :
            LET p     == SubSeq(req.derivation, 1, n)
                q     == SubSeq(req.derivation, n + 1, Len(req.derivation))
                first == Result(req.extendedKey, p)
            IN  IF first.err = NoErr
                THEN resp = Result(first.value.ExtendedKey, q)
                ELSE resp = first

-----------------------------------------------------------------------------
(* Repeated calls (C9) *)

\* The observer keeps the call a step makes, or what it kept before.
Remember ==
    /\ seen' \in {seen, [op |-> op', req |-> req', resp |-> resp']}
    /\ UNCHANGED <<pkg, threads>>

\* The arguments of the repeated calls.
DetKeys == {KeyString("main", TRUE, 0, 1), KeyString("main", FALSE, 3, 1)}
DetPaths == {<< >>, <<U32(FALSE, 1)>>, <<U32(TRUE, 0)>>}
DetPubKeys == {[uncompressed |-> PubKeyA], [bytes |-> "00"]}
DetParams == {BitcoinMainNetParams, BitcoinTestNet3Params}
DetSeeds == {Seed("", 0), Seed("000102030405060708090a0b0c0d0e0f", 32), Seed("short", 5)}
GeneratedSeeds == {"generated-1", "generated-2"}
DetAddresses == {AddressA, ToUpper(AddressB), BadAddress}
DetTxRequests ==
    { [Inputs |-> <<in>>, Outputs |-> <<[Address |-> AddressA, Value |-> 100000]>>,
       LockTime |-> 0] : in \in {i \in InputChoices : i.Script = EmptyScript} }
DetMsgTxs ==
    { BuildMsgTx(tx, BitcoinMainNetParams)[1] :
        tx \in {t \in DetTxRequests : BuildMsgTx(t, BitcoinMainNetParams)[2] = NoErr} }
DetUtxos == {u \in UtxoChoices : u.Value = 100000 /\ IsParsable(u.Script)}
DetSignatures == {g \in SignatureChoices : g.AddrEncoding # Legacy}

DetDeriveExtendedKey ==
    \E k \in DetKeys, p \in DetPaths :
        LET r == DeriveExtendedKey(k, p)
        IN  /\ op' = "DeriveExtendedKey"
            /\ req' = [extendedKey |-> k, derivation |-> p]
            /\ resp' = [value |-> r[1], err |-> r[2]]
            /\ UNCHANGED msgTx
            /\ Remember

DetGetAccountExtendedKey ==
    \E publicKey \in DetPubKeys, accountIndex \in {U32(FALSE, 0), U32(TRUE, 0)},
       chainParams \in {BitcoinTestNet3Params} :
        LET r == GetAccountExtendedKey(publicKey, Atom(201), accountIndex, chainParams)
        IN  /\ op' = "GetAccountExtendedKey"
            /\ req' = [publicKey |-> publicKey, chainCode |-> Atom(201),
                       accountIndex |-> accountIndex, chainParams |-> chainParams]
            /\ resp' = [value |-> r[1], err |-> r[2]]
            /\ UNCHANGED msgTx
            /\ Remember

\* GetKeypair: the generated seed is not an argument of the call.
DetGetKeypair ==
    \E seed \in DetSeeds, derivation \in DetPaths, generatedSeed \in GeneratedSeeds :
        LET r == GetKeypair(seed, BitcoinMainNetParams, derivation, generatedSeed)
        IN  /\ op' = "GetKeypair"
            /\ req' = [seed |-> seed, chainParams |-> BitcoinMainNetParams,
                       derivation |-> derivation]
            /\ resp' = [value |-> r[1], err |-> r[2]]
            /\ UNCHANGED msgTx
            /\ Remember

DetEncodeAddress ==
    \E publicKey \in DetPubKeys, encoding \in {Legacy, WrappedSegwit, NativeSegwit, 3},
       chainParams \in {LitecoinMainNetParams} :
        LET r == EncodeAddress(publicKey, encoding, chainParams)
        IN  /\ op' = "EncodeAddress"
            /\ req' = [publicKey |-> publicKey, encoding |-> encoding,
                       chainParams |-> chainParams]
            /\ resp' = [value |-> r[1], err |-> r[2]]
            /\ UNCHANGED msgTx
            /\ Remember

DetValidateAddress ==
    \E address \in DetAddresses, chainParams \in DetParams :
        LET r == ValidateAddress(address, chainParams)
        IN  /\ op' = "ValidateAddress"
            /\ req' = [address |-> address, chainParams |-> chainParams]
            /\ resp' = [value |-> r[1], err |-> r[2]]
            /\ UNCHANGED msgTx
            /\ Remember

DetCreateTransaction ==
    \E tx \in DetTxRequests :
        LET r == CreateTransaction(tx, BitcoinMainNetParams)
        IN  /\ op' = "CreateTransaction"
            /\ req' = [tx |-> tx]
            /\ resp' = [value |-> r[1], err |-> r[2]]
            /\ UNCHANGED msgTx
            /\ Remember

\* DeserializeMsgTx on the RawTx of a transaction, unsigned or signed; the
\* caller holds the decoded transaction afterwards.
DetDeserializeMsgTx ==
    \E tx \in DetMsgTxs, signatures \in {<< >>, <<[DerSig |-> Nil, PubKey |-> PubKeyB,
                                                    AddrEncoding |-> Legacy]>>} :
        LET rawTx == IF Len(signatures) = 0 THEN encodeMsgTx(tx)
                     ELSE SignTransaction(tx, BitcoinMainNetParams, signatures)[2]
        IN  /\ op' = "DeserializeMsgTx"
            /\ req' = [rawTx |-> rawTx]
            /\ resp' = [value |-> DeserializeMsgTx(rawTx)[1],
                         err   |-> DeserializeMsgTx(rawTx)[2]]
            /\ msgTx' = DeserializeMsgTx(rawTx)[1]
            /\ Remember

\* The two signing calls, on the transaction the caller holds.
DetGenerateDerSignatures ==
    /\ msgTx # Nil
    /\ \E utxos \in SeqsUpTo(DetUtxos, 1), privKey \in DetKeys :
        LET r == GenerateDerSignatures(msgTx, utxos, privKey)
        IN  /\ op' = "GenerateDerSignatures"
            /\ req' = [msgTx |-> msgTx, utxos |-> utxos, privKey |-> privKey]
            /\ resp' = [value |-> r[1], err |-> r[2]]
            /\ UNCHANGED msgTx
            /\ Remember

DetSignTransaction ==
    /\ msgTx # Nil
    /\ \E signatures \in SeqsUpTo(DetSignatures, 1) :
        LET r == SignTransaction(msgTx, BitcoinMainNetParams, signatures)
        IN  /\ op' = "SignTransaction"
            /\ req' = [msgTx |-> msgTx, signatures |-> signatures]
            /\ resp' = [value |-> r[2], err |-> r[3]]
            /\ msgTx' = r[1]
            /\ Remember

NextDet ==
    \/ DetDeriveExtendedKey
    \/ DetGetAccountExtendedKey
    \/ DetGetKeypair
    \/ DetEncodeAddress
    \/ DetValidateAddress
    \/ DetCreateTransaction
    \/ DetDeserializeMsgTx
    \/ DetGenerateDerSignatures
    \/ DetSignTransaction

SpecDet == Init /\ [][NextDet]_vars

-----------------------------------------------------------------------------
(* The program from load to serving: init functions, concurrent calls *)

\* A second P2PKH address of mainnet.
AddressC == Base58Address(0, Hash160(SerializeCompressed(PubKeyB)))

\* The raw transactions of concurrent calls: two transactions that
\* CreateTransaction returns, which pay different P2PKH addresses, one that is
\* no hexadecimal string, and the first one without the bytes of its lock
\* time.
ConcRawTxs ==
    { CreateTransaction([Inputs   |-> <<[OutputHash |-> [hashstr |-> "2f5d"],
                                         OutputIndex |-> 0, Script |-> EmptyScript,
                                         Sequence |-> 0, Value |-> 100000]>>,
                         Outputs  |-> <<[Address |-> a, Value |-> 100000]>>,
                         LockTime |-> 500000], BitcoinMainNetParams)[1] :
        a \in {AddressA, AddressC} }
    \cup { m \in MalformedRawTxs :
             "text" \in DOMAIN m.Hex \/ m.Hex.hex.at = "LockTime" }

\* The SignTransaction requests of concurrent calls: one signature entry,
\* for Bitcoin mainnet, Litecoin, or no network.
ConcSignRequests ==
    { [RawTx       |-> rawTx,
       Signatures  |-> <<[DerSignature |-> [der |-> "3044a"],
                          PublicKey    |-> [hex |-> [compressed |-> PubKeyA]],
                          AddrEncoding |-> ADDRESS_ENCODING_P2PKH]>>,
       ChainParams |-> chainParams] :
        rawTx \in ConcRawTxs,
        chainParams \in {PbChainParams(BITCOIN_NETWORK_MAINNET, 0, 0),
                         PbChainParams(0, LITECOIN_NETWORK_MAINNET, 0),
                         PbChainParams(0, 0, 0)} }

\* Program load: no init function has run, no goroutine serves.
InitConc ==
    /\ op = "init"
    /\ req = Nil
    /\ resp = Nil
    /\ msgTx = Nil
    /\ seen = Nil
    /\ pkg = PkgAtLoad
    /\ threads = [t \in Threads |-> Idle]

\* An init function of pkg/chaincfg runs; the two run in either order,
\* before main.
RunInitFunction ==
    /\ pkg.phase = "load"
    /\ \E init \in {"litecoin", "bitcoincash"} \ pkg.inits :
        pkg' = RunInit(pkg, init)
    /\ UNCHANGED <<op, req, resp, msgTx, seen, threads>>

\* main starts the server once the init functions have run.
Serve ==
    /\ pkg.phase = "load"
    /\ pkg.inits = {"litecoin", "bitcoincash"}
    /\ pkg' = [pkg EXCEPT !.phase = "serving"]
    /\ UNCHANGED <<op, req, resp, msgTx, seen, threads>>

\* controller.SignTransaction, up to the call of DeserializeMsgTx: the chain
\* parameters are looked up and the signature entries adapted.
ReceiveSignTransaction ==
    /\ pkg.phase = "serving"
    /\ \E t \in Threads, request \in ConcSignRequests :
        /\ threads[t].pc = "idle"
        /\ LET chainParams == LoadedChainParams(pkg, request.ChainParams)
               signatures  == AdaptSignatures(request.Signatures, chainParams[1], 1, << >>)
               received    == [threads[t] EXCEPT !.req = request]
           IN  threads' = [threads EXCEPT ![t] =
                    IF chainParams[2] # NoErr THEN Done(received, Nil, "Internal")
                    ELSE IF signatures[2] # NoErr THEN Done(received, Nil, "Internal")
                    ELSE [received EXCEPT !.pc = "deserialize",
                                          !.chainParams = chainParams[1],
                                          !.signatures = signatures[1]]]
    /\ UNCHANGED <<op, req, resp, msgTx, seen, pkg>>

\* controller.SignTransaction: the call of DeserializeMsgTx, on a
\* transaction of the goroutine's own.
DeserializeMsgTxStep ==
    \E t \in Threads :
        /\ threads[t].pc = "deserialize"
        /\ LET d == DeserializeMsgTxBorrowing(pkg, RawTx(threads[t].req.RawTx))
           IN  /\ threads' = [threads EXCEPT ![t] =
                      IF d.err # NoErr THEN Done(@, Nil, "Internal")
                      ELSE [@ EXCEPT !.pc = "sign", !.msgTx = d.msgTx]]
               /\ pkg' = [pkg EXCEPT !.scriptPool = d.scriptPool, !.buffers = d.buffers]
        /\ UNCHANGED <<op, req, resp, msgTx, seen>>

\* controller.SignTransaction: the call of Service.SignTransaction, which
\* reads the scripts of the transaction when it encodes it, and the response.
SignTransactionStep ==
    \E t \in Threads :
        /\ threads[t].pc = "sign"
        /\ LET signedRawTx == SignTransaction(Resolve(threads[t].msgTx, pkg.buffers),
                                              threads[t].chainParams,
                                              threads[t].signatures)
           IN  threads' = [threads EXCEPT ![t] =
                    IF signedRawTx[3] # NoErr THEN Done(@, Nil, "Internal")
                    ELSE Done([@ EXCEPT !.msgTx = signedRawTx[1]],
                              [Hex         |-> signedRawTx[2].Hex,
                               Hash        |-> signedRawTx[2].Hash,
                               WitnessHash |-> signedRawTx[2].WitnessHash], NoErr)]
        /\ UNCHANGED <<op, req, resp, msgTx, seen, pkg>>

\* The response has been sent; the goroutine takes the next call.
ReturnStep ==
    \E t \in Threads :
        /\ threads[t].pc = "done"
        /\ threads' = [threads EXCEPT ![t] = Idle]
        /\ UNCHANGED <<op, req, resp, msgTx, seen, pkg>>

NextConc ==
    \/ RunInitFunction
    \/ Serve
    \/ ReceiveSignTransaction
    \/ DeserializeMsgTxStep
    \/ SignTransactionStep
    \/ ReturnStep

SpecConc == InitConc /\ [][NextConc]_vars

\* The last call is GetKeypair with the empty seed.
RandomSeed == op = "GetKeypair" /\ req.seed.len = 0

C9_EmptySeedToo ==
    (seen # Nil /\ seen.op = op /\ seen.req = req) => seen.resp = resp

-----------------------------------------------------------------------------
(* Addresses: encoding, validation, networks (C11 to C18) *)

KnownEncodings == {Legacy, WrappedSegwit, NativeSegwit}
KnownPbEncodings ==
    {ADDRESS_ENCODING_P2PKH, ADDRESS_ENCODING_P2SH_P2WPKH, ADDRESS_ENCODING_P2WPKH}

\* Whether some signature entry of a SignTransaction request carries an
\* encoding that is none of the three.
HasUnknownEncoding(signatures) ==
    \E i \in 1..Len(signatures) : signatures[i].AddrEncoding \notin KnownPbEncodings

\* C12 as stated: an encoding outside the three is always rejected with the
\* unknown-address-type error by EncodeAddress and by the SignatureMetadata
\* adapter, and neither an address nor a signed transaction is produced.
C12_UnknownEncodingAlwaysUnknownType ==
    /\ (op = "EncodeAddress" /\ req.encoding \notin KnownEncodings)
           => (resp.value = Nil /\ resp.err = "ErrUnknownAddressType")
    /\ (op = "SignatureMetadata" /\ req.proto.AddrEncoding \notin KnownPbEncodings)
           => (resp.value = Nil /\ resp.err = "ErrUnknownAddressType")
    /\ (op = "controller.EncodeAddress" /\ req.Encoding \notin KnownPbEncodings)
           => resp.value = Nil
    /\ (op = "controller.SignTransaction" /\ HasUnknownEncoding(req.Signatures))
           => resp.value = Nil

\* C12, amended: an encoding outside the three is never treated as a known
\* one and always rejected without an address or a signed transaction; the
\* error is the unknown-address-type error in the SignatureMetadata adapter
\* and in the EncodeAddress RPC of a known network, and in Service.EncodeAddress
\* when the public key parses, while a public key that does not parse is
\* reported first, with the error of the key.
C12_UnknownEncodingRejected ==
    /\ (op = "EncodeAddress" /\ req.encoding \notin KnownEncodings)
           => /\ resp.value = Nil
              /\ resp.err = IF ParsePubKey(req.publicKey)[2] = NoErr
                            THEN "ErrUnknownAddressType"
                            ELSE ParsePubKey(req.publicKey)[2]
    /\ (op = "SignatureMetadata" /\ req.proto.AddrEncoding \notin KnownPbEncodings)
           => (resp.value = Nil /\ resp.err = "ErrUnknownAddressType")
    /\ (op = "controller.EncodeAddress" /\ req.Encoding \notin KnownPbEncodings)
           => /\ resp.value = Nil
              /\ resp.err = "InvalidArgument"
              /\ ChainParams(req.ChainParams)[2] = NoErr
                     => resp.msg[Len(resp.msg)] = "ErrUnknownAddressType"
    /\ (op = "controller.SignTransaction" /\ HasUnknownEncoding(req.Signatures))
           => (resp.value = Nil /\ resp.err = "Internal")

\* Service.EncodeAddress has refused the encoding 3 for a key that parses.
C12_Witness ==
    /\ op = "EncodeAddress"
    /\ req.encoding = 3
    /\ req.publicKey = [compressed |-> PubKeyA]
    /\ resp.value = Nil
    /\ resp.err = "ErrUnknownAddressType"

\* The strings of PubKeyStrings that are no public key, each with the error
\* btcec.ParsePubKey gives for it.
InvalidPubKeyErrors ==
    { <<[bytes |-> "04"], "invalid pub key length 1">>,
      <<[bytes |-> ""], "pubkey string is empty">>,
      <<[xNotBelowP |-> "uncompressed"], "pubkey X parameter is >= to P">>,
      <<[offCurve |-> "compressed"], "invalid square root">>,
      <<[offCurve |-> "uncompressed"], "pubkey isn't on secp256k1 curve">> }

\* C13: EncodeAddress checks the public key first: a key of wrong length, with
\* a coordinate not below the field prime, or off the curve is rejected with
\* the error of the key and an empty address, for every address encoding
\* (known or not) and every network; the RPC returns no response for it.
C13_InvalidKeyRejectedFirst ==
    \A e \in InvalidPubKeyErrors :
        /\ (op = "EncodeAddress" /\ req.publicKey = e[1])
               => /\ resp.value = Nil
                  /\ resp.err = e[2]
                  /\ resp.text = <<"failed to parse public key %s", e[2]>>
        /\ (op = "controller.EncodeAddress" /\ req.PublicKey = e[1])
               => /\ resp.value = Nil
                  /\ resp.err = "InvalidArgument"

\* A key off the curve has been refused for a P2SH-P2WPKH address of Bitcoin
\* Cash.
C13_Witness ==
    /\ op = "EncodeAddress"
    /\ req.publicKey = [offCurve |-> "compressed"]
    /\ req.encoding = WrappedSegwit
    /\ req.chainParams = BitcoinCashMainNetParams
    /\ resp.value = Nil
    /\ resp.err = "invalid square root"

\* The address of a curve point under an encoding and chain parameters, with
\* the hash taken over the compressed form of the point.
AddressOfPoint(point, encoding, chainParams) ==
    LET keyHash == Hash160(SerializeCompressed(point))
    IN  CASE encoding = Legacy ->
                Base58Address(chainParams.PubKeyHashAddrID, keyHash)
          [] encoding = WrappedSegwit ->
                Base58Address(chainParams.ScriptHashAddrID,
                              Hash160(Script(<<Opcode("OP_0"), Push(keyHash)>>)))
          [] encoding = NativeSegwit ->
                Bech32Address(chainParams.Bech32HRPSegwit, keyHash)

\* C14: EncodeAddress returns the same address for the compressed and for the
\* uncompressed (and the hybrid) serialization of a curve point, under each
\* of the three encodings: the hash is taken over the compressed form, and
\* the uncompressed key is accepted for P2SH-P2WPKH and P2WPKH as for P2PKH.
C14_SameAddressForBothForms ==
    (op = "EncodeAddress" /\ req.encoding \in KnownEncodings)
        => \A point \in {PubKeyA, PubKeyB} :
              req.publicKey \in {[compressed |-> point], [uncompressed |-> point],
                                 [hybrid |-> point]}
                  => /\ resp.err = NoErr
                     /\ resp.value = AddressOfPoint(point, req.encoding, req.chainParams)

\* An uncompressed key has been encoded as a P2SH-P2WPKH address of testnet.
C14_Witness ==
    /\ op = "EncodeAddress"
    /\ req.publicKey = [uncompressed |-> PubKeyA]
    /\ req.encoding = WrappedSegwit
    /\ req.chainParams = BitcoinTestNet3Params
    /\ resp.err = NoErr
    /\ resp.value = EncodeAddress([compressed |-> PubKeyA], WrappedSegwit,
                                  BitcoinTestNet3Params)[1]

\* The network a request sets, by family and id; a request that sets none
\* carries the zero value of the first family.
SuppliedNetwork(chainParams) ==
    IF chainParams.BitcoinNetwork # 0 THEN [BitcoinNetwork |-> chainParams.BitcoinNetwork]
    ELSE IF chainParams.LitecoinNetwork # 0
    THEN [LitecoinNetwork |-> chainParams.LitecoinNetwork]
    ELSE IF chainParams.BitcoinCashNetwork # 0
    THEN [BitcoinCashNetwork |-> chainParams.BitcoinCashNetwork]
    ELSE [BitcoinNetwork |-> 0]

\* The table of each known network.
TableOf(network) ==
    CASE network = [BitcoinNetwork |-> BITCOIN_NETWORK_MAINNET] -> BitcoinMainNetParams
      [] network = [BitcoinNetwork |-> BITCOIN_NETWORK_TESTNET3] -> BitcoinTestNet3Params
      [] network = [BitcoinNetwork |-> BITCOIN_NETWORK_REGTEST] -> BitcoinRegressionNetParams
      [] network = [LitecoinNetwork |-> LITECOIN_NETWORK_MAINNET] -> LitecoinMainNetParams
      [] network = [BitcoinCashNetwork |-> BITCOIN_CASH_NETWORK_MAINNET] ->
            BitcoinCashMainNetParams
      [] OTHER -> Nil

\* C15: the lookup of chain parameters returns, for each of the five known
\* network ids, that network's own table, and for every other id no
\* parameters and an unknown-network error that names the id supplied (99999
\* of the Bitcoin family is named as such).
C15_LookupTotalAndErrorNamesId ==
    op = "ChainParams"
        => LET network == SuppliedNetwork(req.chainParams)
           IN  IF TableOf(network) # Nil
               THEN resp.value = TableOf(network) /\ resp.err = NoErr
               ELSE /\ resp.value = Nil
                    /\ resp.err = "ErrUnknownNetwork"
                    /\ network # [BitcoinNetwork |-> 0] => resp.named = network

\* C16: every controller operation that takes chain parameters returns no
\* response and the status code InvalidArgument when the network of the
\* request is unknown.
C16_UnknownNetworkIsInvalidArgument ==
    LET chainParams ==
            IF op = "controller.CreateTransaction" THEN req.txRequest.ChainParams
            ELSE req.ChainParams
    IN  (/\ op \in {"controller.ValidateAddress", "controller.EncodeAddress",
                    "controller.GetAccountExtendedKey", "controller.CreateTransaction",
                    "controller.GetKeypair", "controller.SignTransaction"}
         /\ ChainParams(chainParams)[2] # NoErr)
            => (resp.value = Nil /\ resp.err = "InvalidArgument")

\* The canonical form of an address string: a Bech32 string in lower case, a
\* Base58Check string as it is.
Canonical(address) ==
    IF address.enc = "bech32" THEN [address EXCEPT !.upper = FALSE] ELSE address

C18_FailureTextVerbatim ==
    /\ (/\ op = "controller.ValidateAddress"
        /\ ChainParams(req.ChainParams)[2] = NoErr
        /\ req.Address = BadChecksum(AddressB))
           => resp.value.InvalidReason = <<"checksum failed. Expected v8f3t4, got v8f3t5.">>
    /\ (/\ op = "controller.EncodeAddress"
        /\ ChainParams(req.ChainParams)[2] = NoErr
        /\ req.Encoding \in KnownPbEncodings
        /\ req.PublicKey = [bytes |-> "04"])
           => resp.msg = <<"invalid pub key length 1">>

-----------------------------------------------------------------------------
(* The account key built from raw key material (C19, C20) *)

\* The point of a valid serialized public key, in whichever form it is given.
PointOfKeyString(publicKey) ==
    IF "compressed" \in DOMAIN publicKey THEN publicKey.compressed
    ELSE IF "uncompressed" \in DOMAIN publicKey THEN publicKey.uncompressed
    ELSE IF "hybrid" \in DOMAIN publicKey THEN publicKey.hybrid
    ELSE Nil

\* C19: for a valid public key GetAccountExtendedKey returns an extended
\* public key with the HD public version bytes of the network, depth 3, the
\* chain code supplied, the compressed form of the key supplied, and as parent
\* fingerprint the fingerprint of that same key (the one its own children
\* carry as their parent's); for an invalid public key it returns an error and
\* the empty string.
C19_SyntheticAccountKey ==
    op = "GetAccountExtendedKey"
        => LET point == PointOfKeyString(req.publicKey)
               key   == NewKeyFromString(resp.value)[1]
           IN  IF point = Nil
               THEN resp.err # NoErr /\ resp.value = Nil
               ELSE /\ resp.err = NoErr
                    /\ key.version = req.chainParams.HDPublicKeyID
                    /\ key.depth = 3
                    /\ key.chainCode = req.chainCode
                    /\ ~key.isPrivate
                    /\ key.key = point
                    /\ key.parentFP = Fingerprint(point)
                    /\ key.parentFP = Child(key, U32(FALSE, 0))[1].parentFP

\* An account key of testnet has been built from an uncompressed public key.
C19_Witness ==
    /\ op = "GetAccountExtendedKey"
    /\ req.publicKey = [uncompressed |-> PubKeyA]
    /\ req.chainParams = BitcoinTestNet3Params
    /\ resp.err = NoErr
    /\ resp.value.depth = 3
    /\ resp.value.parentFP = Fingerprint(PubKeyA)

\* The parent fingerprints, child numbers and depths an account-level key
\* with the same key and chain code may carry.
TrueParentFingerprints == {Fingerprint(Atom(77)), Fingerprint(Atom(78))}
TrueChildNumbers == {HardenedKeyStart, U32(TRUE, 1), U32(FALSE, 5)}
TrueDepths == {1, 3, maxUint8 - MaxPathLen - 1}

\* C20: what DeriveExtendedKey returns as public key and chain code depends
\* on the parent's key, chain code and the path, not on its fingerprint, depth
\* or child number: from the key built by GetAccountExtendedKey every path
\* gives the same public key and chain code (and the same error for a
\* hardened index) as from an extended public key with the same key and chain
\* code and the true parent fingerprint, child number and depth.
C20_FingerprintDoesNotMatter ==
    (op = "DeriveExtendedKey" /\ "account" \in DOMAIN req)
        => \A fp \in TrueParentFingerprints, childNum \in TrueChildNumbers,
              depth \in TrueDepths :
              LET trueKey == NewExtendedKey(req.account.chainParams.HDPublicKeyID,
                                            PointOfKeyString(req.account.publicKey),
                                            req.account.chainCode, fp, depth, childNum,
                                            FALSE)
                  r       == DeriveExtendedKey(String(trueKey), req.derivation)
              IN  /\ r[2] = resp.err
                  /\ r[1].PublicKey = resp.value.PublicKey
                  /\ r[1].ChainCode = resp.value.ChainCode
                  /\ (\A i \in 1..Len(req.derivation) : ~IsHardened(req.derivation[i]))
                         => resp.err = NoErr /\ resp.value.PublicKey # Nil

\* A path of two normal indices has been derived from a built account key.
C20_Witness ==
    /\ op = "DeriveExtendedKey"
    /\ "account" \in DOMAIN req
    /\ req.derivation = <<U32(FALSE, 0), U32(FALSE, 1)>>
    /\ resp.err = NoErr
    /\ resp.value.PublicKey # Nil
    /\ resp.value.ExtendedKey.depth = 5

-----------------------------------------------------------------------------
(* Key material returned, concurrency, frames (C21 to C24) *)

\* C21: the ExtendedKey of the PublicKeyMaterial that a successful
\* DeriveExtendedKey returns is an extended public key (public version bytes,
\* a curve point as key data), never a serialized extended private key,
\* whether the key supplied was public or private.
C21_ExtendedKeyAlwaysPublic ==
    (op = "DeriveExtendedKey" /\ resp.err = NoErr)
        => /\ resp.value.ExtendedKey.version.kind = "pub"
           /\ resp.value.ExtendedKey.keyData.prefix = "point"


\* The seed that the last GetKeypair call made its master node from: the
\* seed of the caller, or a generated one of the recommended length.
UsedSeed(call) ==
    IF call.seed.len = 0 THEN Seed(call.random, RecommendedSeedLen) ELSE call.seed

\* A path without a hardened index.
NonHardened(path) == \A i \in 1..Len(path) : ~IsHardened(path[i])

\* C23: GetKeypair makes the master node from the seed of the caller, or from
\* a generated seed of the recommended length when the caller gives none; on
\* success PrivateKey is the private extended key of the node the path leads
\* to and ExtendedPublicKey is the same node with the public key in place of
\* the private one, so that DeriveExtendedKey gives the same public key and
\* chain code from either of them along every path without a hardened index;
\* a call that fails returns an error with the empty keypair, and a call
\* that returns no error returns both keys.
C23_KeypairOfSeed ==
    /\ op = "GetKeypair" =>
        LET master == NewMaster(UsedSeed(req), req.chainParams)
            node   == DerivePath(master[1], req.derivation, 1)
            priv   == NewKeyFromString(resp.value.PrivateKey)
            pub    == NewKeyFromString(resp.value.ExtendedPublicKey)
        IN  /\ (req.seed.len = 0 \/ req.seed.len \in 16..64) => master[2] = NoErr
            /\ IF master[2] = NoErr /\ node[2] = NoErr
               THEN /\ resp.err = NoErr
                    /\ resp.value.PrivateKey = String(node[1])
                    /\ priv[2] = NoErr /\ priv[1].isPrivate
                    /\ pub[2] = NoErr /\ ~pub[1].isPrivate
                    /\ pub[1].key = PointOf(priv[1].key)
                    /\ pub[1].chainCode = priv[1].chainCode
                    /\ pub[1].depth = priv[1].depth
                    /\ pub[1].childNum = priv[1].childNum
                    /\ pub[1].parentFP = priv[1].parentFP
                    /\ pub[1].version = Version(priv[1].version.net, "pub")
               ELSE /\ resp.err # NoErr
                    /\ resp.value = EmptyKeypair
    /\ (op = "DeriveExtendedKey" /\ "keypair" \in DOMAIN req /\ NonHardened(req.derivation)) =>
        LET fromPriv == DeriveExtendedKey(req.keypair.PrivateKey, req.derivation)
            fromPub  == DeriveExtendedKey(req.keypair.ExtendedPublicKey, req.derivation)
        IN  /\ resp.err = NoErr
            /\ fromPriv[2] = NoErr /\ fromPub[2] = NoErr
            /\ resp.value.PublicKey = fromPriv[1].PublicKey
            /\ resp.value.PublicKey = fromPub[1].PublicKey
            /\ resp.value.ChainCode = fromPriv[1].ChainCode
            /\ resp.value.ChainCode = fromPub[1].ChainCode

\* The public key of a keypair made from a generated seed along a path has
\* been derived along two normal indices.
C23_Witness ==
    /\ op = "DeriveExtendedKey"
    /\ "keypair" \in DOMAIN req
    /\ req.of.seed.len = 0
    /\ Len(req.of.derivation) = 2
    /\ req.extendedKey = req.keypair.ExtendedPublicKey
    /\ req.derivation = <<U32(FALSE, 1), U32(FALSE, 0)>>
    /\ resp.err = NoErr
    /\ resp.value.ExtendedKey.depth = 4
    /\ resp.value.PublicKey = DeriveExtendedKey(req.keypair.PrivateKey, req.derivation)[1].PublicKey


\* C24: GenerateDerSignatures and SignTransaction leave the transaction they
\* are passed as it was: after either call, failed or not, the caller's
\* transaction has the inputs (outpoint, signature script, witness,
\* sequence), outputs and lock time it had before the call.
C24_CallerTxUnchanged ==
    op \in {"GenerateDerSignatures", "SignTransaction"} => msgTx = req.msgTx


-----------------------------------------------------------------------------
(* Depth, child number and version of derived keys (C25) *)

-----------------------------------------------------------------------------
(* The transaction that CreateTransaction builds (C26) *)

\* Every input hash and every recipient address of the request decodes.
RequestDecodes(tx, chainParams) ==
    /\ \A i \in 1..Len(tx.Inputs) : NewHashFromStr(tx.Inputs[i].OutputHash)[2] = NoErr
    /\ \A j \in 1..Len(tx.Outputs) : DecodeAddress(tx.Outputs[j].Address, chainParams)[2] = NoErr

-----------------------------------------------------------------------------
(* Raw transactions that are no complete serialization (C29) *)

\* The Hex is a hexadecimal string that holds a whole transaction.
WellFormedHex(h) == "hex" \in DOMAIN h /\ "truncated" \notin DOMAIN h.hex

\* C29: for a raw transaction whose Hex is no complete, well-formed
\* serialization (no hexadecimal string, or bytes that end early),
\* DeserializeMsgTx returns an error and the GenerateDerSignatures and
\* SignTransaction RPCs return an error and nothing else; for a raw
\* transaction that CreateTransaction returned for at least one input,
\* decoding its Hex and encoding the result gives the same Hex, Hash and
\* WitnessHash.
C29_MalformedRawTxRejected ==
    op \in {"controller.GenerateDerSignatures", "controller.SignTransaction"} =>
        IF WellFormedHex(req.RawTx.Hex)
        THEN /\ DeserializeMsgTx(RawTx(req.RawTx))[2] = NoErr
             /\ encodeMsgTx(DeserializeMsgTx(RawTx(req.RawTx))[1]) = RawTx(req.RawTx)
        ELSE /\ DeserializeMsgTx(RawTx(req.RawTx))[2] # NoErr
             /\ resp.err # NoErr
             /\ resp.value = Nil


-----------------------------------------------------------------------------
(* The child number of an account key (C28) *)

\* C28: GetAccountExtendedKey gives the key the child number accountIndex +
\* 2^31, with the hardened bit set and nothing lost to 32-bit wraparound, and
\* rejects an accountIndex of 2^31 or more.
C28_AccountIndexHardened ==
    op = "GetAccountExtendedKey" /\ PointOfKeyString(req.publicKey) # Nil
        => IF req.accountIndex.h
           THEN resp.err # NoErr
           ELSE /\ resp.err = NoErr
                /\ NewKeyFromString(resp.value)[1].childNum = U32(TRUE, req.accountIndex.n)
                /\ IsHardened(NewKeyFromString(resp.value)[1].childNum)


-----------------------------------------------------------------------------
(* Address validation across networks (C30) *)

\* C30: an address that ValidateAddress accepts under the parameters of one
\* supported network is rejected under the parameters of every other one.
C30_NetworksSeparated ==
    op = "ValidateAddress" /\ resp.err = NoErr
        => \A other \in AllChainParams \ {req.chainParams} :
               ValidateAddress(req.address, other)[2] # NoErr


-----------------------------------------------------------------------------
(* Concurrent calls and the chain parameter tables (C22, C27) *)

\* C22: whatever calls run at the same time and however their steps
\* interleave, a call that has returned has returned what it returns when it
\* runs alone.
C22_ConcurrentCallsIndependent ==
    \A t \in Threads :
        threads[t].pc = "done"
            => threads[t].resp = [value |-> ControllerSignTransaction(threads[t].req)[1],
                                  err   |-> ControllerSignTransaction(threads[t].req)[2]]

\* The structs of chain parameters that exist.
Allocated == {a \in Addresses : pkg.heap[a] # Nil}

\* What every reading of the sentence about the tables has in common: the
\* struct of Bitcoin mainnet is as btcd made it; the structs that exist have
\* different magic numbers and no init function has panicked; the variable
\* of each copy points to a struct of its own, which holds the values of its
\* network; and once the server runs, the variables, the structs and
\* the registry are as the init functions left them.
TablesBuiltAndFrozen ==
    /\ pkg.heap["chaincfg.MainNetParams"] =
           Params(BitcoinMainNetParams, OwnReferences("mainnet"))
    /\ pkg.phase # "panicked"
    /\ \A a, b \in Allocated : a # b => pkg.heap[a].val.Net # pkg.heap[b].val.Net
    /\ "litecoin" \in pkg.inits
           => /\ pkg.ptr.LitecoinMainNetParams = "litecoin.fromBtcParams"
              /\ LoadedParams(pkg, "LitecoinMainNetParams") = LitecoinMainNetParams
    /\ "bitcoincash" \in pkg.inits
           => /\ pkg.ptr.BitcoinCashMainNetParams = "bitcoincash.fromBtcParams"
              /\ LoadedParams(pkg, "BitcoinCashMainNetParams") = BitcoinCashMainNetParams
    /\ pkg.phase = "serving"
           => pkg = [PkgAfterInit EXCEPT !.scriptPool = pkg.scriptPool,
                                         !.buffers = pkg.buffers]

\* C27 as stated: building the Litecoin and Bitcoin Cash tables as copies of
\* the Bitcoin mainnet table leaves that table unchanged, no two tables share
\* anything that a later write could change, the magic numbers differ so that
\* registration never fails or panics, and no table is written once the
\* server runs.
C27_TablesShareNothing ==
    /\ TablesBuiltAndFrozen
    /\ \A a, b \in Allocated :
           a # b => \A f \in ReferenceFields : pkg.heap[a].ref[f] # pkg.heap[b].ref[f]

\* C27 amended: the same, except that the copies keep the slices and
\* pointers of the Bitcoin mainnet table, so the three tables refer to the
\* same DNS seeds, genesis block, genesis hash, proof-of-work limit and
\* checkpoints; btcd's other tables share none of them.
C27_TablesShareReferences ==
    /\ TablesBuiltAndFrozen
    /\ \A a, b \in Allocated :
           a # b => \A f \in ReferenceFields :
                        pkg.heap[a].ref[f] = pkg.heap[b].ref[f]
                            <=> {a, b} \subseteq {"chaincfg.MainNetParams",
                                                  "litecoin.fromBtcParams",
                                                  "bitcoincash.fromBtcParams"}

\* The server runs with both tables built, and a call for Litecoin has read
\* the Litecoin table and returned a signed transaction.
C27_Witness ==
    /\ pkg.phase = "serving"
    /\ pkg.inits = {"litecoin", "bitcoincash"}
    /\ \E t \in Threads :
        /\ threads[t].pc = "done"
        /\ threads[t].resp.err = NoErr
        /\ threads[t].chainParams = LitecoinMainNetParams
        /\ threads[t].chainParams # LoadedParams(pkg, "BitcoinMainNetParams")

=============================================================================
